---------------------------- MODULE Spec2Model ----------------------------
(***************************************************************************)
(* The image delivery pipeline of slack-mcp-server (package handler):      *)
(* reference extraction, the host allowlist, the fetchers (budget mode and *)
(* pool mode), content sniffing, PNG->JPEG compression and packaging.      *)
(*                                                                         *)
(* Go strings are modelled as sequences of one-character strings and byte  *)
(* slices as records [head, pad, tail]: the bytes of head, then pad zero   *)
(* bytes, then the bytes of tail (bytes are 0..255).                       *)
(***************************************************************************)
EXTENDS Integers, Sequences, FiniteSets, TLC

VARIABLES
    call,               \* the pure function under check and its argument
    ret,                \* its return value
    returned,           \* TRUE once it has returned
    mode,               \* which downloader the caller invokes: "budget" | "pool"
    pc,                 \* position of the calling goroutine in the pipeline
    ctx,                \* the caller's context.Context: "active" | "cancelled"
    slackClient,        \* the caller's SlackFileDownloader: the Slack client or
                        \* a mock with its files, URL -> bytes
    msg,                \* the slack.Message handed to the extractors
    refs,               \* the caller's []ImageInfo (output of the extractors)
    images,             \* the downloader's local images (after truncation)
    budget,             \* DownloadImagesWithBudget's budget parameter
    next,               \* 1-based position of the range loop over images
    inflight,           \* GetFileContext calls in progress: position -> context
                        \* of the call and its response
    fetched,            \* how often each URL was handed to GetFileContext
    imageData,          \* map key -> bytes
    mimeTypeOverrides,  \* map key -> MIME type
    skippedImages,      \* []ImageInfo skipped for budget
    warnings,           \* []string of warnings
    cumulativeSize,     \* running total of DownloadImagesWithBudget
    budgetExceeded,     \* sticky flag of DownloadImagesWithBudget
    outcome,            \* history: per loop iteration, the branch that finalised it
    content,            \* output of ImagesToMCPContent
    semaphore,          \* number of tokens held in the semaphore channel
    resultChan,         \* buffered result channel (queue of imageDownloadResult)
    chanClosed,         \* TRUE once close(resultChan) ran
    wg,                 \* sync.WaitGroup counter
    worker              \* position of each worker goroutine

pureVars == <<call, ret, returned>>
pipeVars == <<mode, pc, ctx, slackClient, msg, refs, images, budget, next, inflight, fetched,
              imageData, mimeTypeOverrides, skippedImages, warnings,
              cumulativeSize, budgetExceeded, outcome, content>>
poolVars == <<semaphore, resultChan, chanClosed, wg, worker>>
poolVarsButWorker == <<semaphore, resultChan, chanClosed, wg>>
vars == <<call, ret, returned, mode, pc, ctx, slackClient,
          msg, refs, images, budget, next,
          inflight, fetched, imageData, mimeTypeOverrides, skippedImages,
          warnings, cumulativeSize, budgetExceeded, outcome, content,
          semaphore, resultChan, chanClosed, wg, worker>>

---------------------------------------------------------------------------
(* Go package strings, on sequences of characters.                         *)

LowerLetters == <<"a", "b", "c", "d", "e", "f", "g", "h", "i", "j", "k", "l", "m",
                  "n", "o", "p", "q", "r", "s", "t", "u", "v", "w", "x", "y", "z">>
UpperLetters == <<"A", "B", "C", "D", "E", "F", "G", "H", "I", "J", "K", "L", "M",
                  "N", "O", "P", "Q", "R", "S", "T", "U", "V", "W", "X", "Y", "Z">>
Digits == {"0", "1", "2", "3", "4", "5", "6", "7", "8", "9"}

Range(s) == {s[i] : i \in 1..Len(s)}
IsLetter(c) == c \in Range(LowerLetters) \cup Range(UpperLetters)
IsDigit(c) == c \in Digits

\* strings.ToLower, one character
ToLowerChar(c) ==
    IF c \in Range(UpperLetters)
    THEN LowerLetters[CHOOSE i \in 1..Len(UpperLetters) : UpperLetters[i] = c]
    ELSE c

\* strings.ToLower
ToLower(s) == [i \in 1..Len(s) |-> ToLowerChar(s[i])]

\* strings.HasPrefix / strings.HasSuffix
HasPrefix(s, p) == Len(s) >= Len(p) /\ SubSeq(s, 1, Len(p)) = p
HasSuffix(s, p) == Len(s) >= Len(p) /\ SubSeq(s, Len(s) - Len(p) + 1, Len(s)) = p

\* strings.Index / strings.LastIndex for a one-character separator, 1-based;
\* 0 when the character does not occur (Go's -1)
Index(s, c) ==
    IF \E i \in 1..Len(s) : s[i] = c
    THEN CHOOSE i \in 1..Len(s) : s[i] = c /\ \A j \in 1..(i - 1) : s[j] # c
    ELSE 0
LastIndex(s, c) ==
    IF \E i \in 1..Len(s) : s[i] = c
    THEN CHOOSE i \in 1..Len(s) : s[i] = c /\ \A j \in (i + 1)..Len(s) : s[j] # c
    ELSE 0

\* strings.Cut(s, c): the text before the first c (all of s when c is absent)
CutBefore(s, c) == IF Index(s, c) = 0 THEN s ELSE SubSeq(s, 1, Index(s, c) - 1)

\* strings.TrimSpace (the white space of the model's strings is the blank and
\* the tab)
IsSpace(c) == c \in {" ", "\t"}
TrimSpace(s) ==
    IF \A i \in 1..Len(s) : IsSpace(s[i]) THEN <<>>
    ELSE LET a == CHOOSE i \in 1..Len(s) : ~IsSpace(s[i]) /\ \A j \in 1..(i - 1) : IsSpace(s[j])
             b == CHOOSE i \in 1..Len(s) : ~IsSpace(s[i]) /\ \A j \in (i + 1)..Len(s) : IsSpace(s[j])
         IN SubSeq(s, a, b)

---------------------------------------------------------------------------
(* Go package net/url, as far as url.Parse, URL.Hostname and URL.Path go.  *)
(* The characters of the model's URLs are letters, digits and              *)
(* . - : / @ ? # and the blank; neither '[' (IPv6 literals) nor '%'        *)
(* (escapes) nor control characters occur.                                 *)

\* url.getScheme: [err, scheme, rest]
getScheme(rawURL) ==
    LET isSchemeChar(c) == IsLetter(c) \/ IsDigit(c) \/ c \in {"+", "-", "."}
        noScheme == [err |-> FALSE, scheme |-> <<>>, rest |-> rawURL]
    IN IF rawURL = <<>> THEN noScheme
       ELSE IF ~IsLetter(rawURL[1])
            THEN IF rawURL[1] = ":"
                 THEN [err |-> TRUE, scheme |-> <<>>, rest |-> <<>>]
                 ELSE noScheme
            ELSE IF \A i \in 1..Len(rawURL) : isSchemeChar(rawURL[i])
                 THEN noScheme
                 ELSE LET j == CHOOSE i \in 1..Len(rawURL) :
                                   /\ ~isSchemeChar(rawURL[i])
                                   /\ \A k \in 1..(i - 1) : isSchemeChar(rawURL[k])
                      IN IF rawURL[j] = ":"
                         THEN [err |-> FALSE, scheme |-> SubSeq(rawURL, 1, j - 1),
                               rest |-> SubSeq(rawURL, j + 1, Len(rawURL))]
                         ELSE noScheme

\* url.validOptionalPort: "" or ":" followed by digits only
validOptionalPort(port) ==
    \/ port = <<>>
    \/ /\ port[1] = ":"
       /\ \A i \in 2..Len(port) : IsDigit(port[i])

\* url.validUserinfo
validUserinfo(s) ==
    \A i \in 1..Len(s) :
        \/ IsLetter(s[i])
        \/ IsDigit(s[i])
        \/ s[i] \in {"-", ".", "_", ":", "~", "!", "$", "&", "'", "(", ")", "*",
                     "+", ",", ";", "=", "%", "@"}

\* url.parseHost: the port after the last ':' must be valid and every
\* character must be one url.shouldEscape(c, encodeHost) lets through
parseHostOK(host) ==
    /\ LastIndex(host, ":") # 0 =>
           validOptionalPort(SubSeq(host, LastIndex(host, ":"), Len(host)))
    /\ \A i \in 1..Len(host) :
           \/ IsLetter(host[i])
           \/ IsDigit(host[i])
           \/ host[i] \in {"-", "_", ".", "~", "!", "$", "&", "'", "(", ")", "*",
                           "+", ",", ";", "=", ":", "[", "]", "<", ">"}

\* url.parseAuthority: [err, Host]
checkAuthority(userinfo, at, host) ==
    IF ~parseHostOK(host) THEN [err |-> TRUE, Host |-> <<>>]
    ELSE IF at # 0 /\ ~validUserinfo(userinfo) THEN [err |-> TRUE, Host |-> <<>>]
    ELSE [err |-> FALSE, Host |-> host]
splitAuthority(authority, at) ==
    checkAuthority(SubSeq(authority, 1, at - 1), at,
                   SubSeq(authority, at + 1, Len(authority)))
parseAuthority(authority) == splitAuthority(authority, LastIndex(authority, "@"))

ParseFailed == [err |-> TRUE, Scheme |-> <<>>, Host |-> <<>>, Path |-> <<>>]

\* url.parse once the authority is parsed
withAuthority(scheme, a, path) ==
    IF a.err THEN ParseFailed
    ELSE [err |-> FALSE, Scheme |-> scheme, Host |-> a.Host, Path |-> path]

\* url.parse after "//": the authority ends at the first "/"
parseAfterSlashes(scheme, after, slash) ==
    withAuthority(scheme,
                  parseAuthority(IF slash = 0 THEN after
                                 ELSE SubSeq(after, 1, slash - 1)),
                  IF slash = 0 THEN <<>> ELSE SubSeq(after, slash, Len(after)))

\* url.parse after the scheme and without the query
parseRest(scheme, rest) ==
    IF ~HasPrefix(rest, <<"/">>) /\ scheme # <<>>
    THEN \* a rootless path after a scheme is opaque
         [err |-> FALSE, Scheme |-> scheme, Host |-> <<>>, Path |-> <<>>]
    ELSE IF ~HasPrefix(rest, <<"/">>) /\ Index(CutBefore(rest, "/"), ":") # 0
         THEN ParseFailed    \* first path segment in URL cannot contain colon
    ELSE IF (scheme # <<>> \/ ~HasPrefix(rest, <<"/", "/", "/">>))
            /\ HasPrefix(rest, <<"/", "/">>)
         THEN parseAfterSlashes(scheme, SubSeq(rest, 3, Len(rest)),
                                Index(SubSeq(rest, 3, Len(rest)), "/"))
    ELSE [err |-> FALSE, Scheme |-> scheme, Host |-> <<>>, Path |-> rest]

\* url.parse after getScheme
parseScheme(s) ==
    IF s.err THEN ParseFailed
    ELSE parseRest(ToLower(s.scheme), CutBefore(s.rest, "?"))

\* url.Parse: [err, Scheme, Host, Path]; Host keeps the port
urlParse(rawURL) == parseScheme(getScheme(CutBefore(rawURL, "#")))

\* url.splitHostPort: the host without a valid port
splitHostPort(hostPort, colon) ==
    IF colon # 0 /\ validOptionalPort(SubSeq(hostPort, colon, Len(hostPort)))
    THEN SubSeq(hostPort, 1, colon - 1)
    ELSE hostPort

\* URL.Hostname
Hostname(u) == splitHostPort(u.Host, LastIndex(u.Host, ":"))

---------------------------------------------------------------------------
(* The global tables.                                                      *)

HostFilesSlackCom == <<"f", "i", "l", "e", "s", ".", "s", "l", "a", "c", "k", ".", "c", "o", "m">>
HostSlackEdgeCom == <<"s", "l", "a", "c", "k", "-", "e", "d", "g", "e", ".", "c", "o", "m">>
HostAvatarsSlackEdgeCom == <<"a", "v", "a", "t", "a", "r", "s", ".", "s", "l", "a", "c", "k", "-", "e", "d", "g", "e", ".", "c", "o", "m">>
MimePNG == <<"i", "m", "a", "g", "e", "/", "p", "n", "g">>
MimeJPEG == <<"i", "m", "a", "g", "e", "/", "j", "p", "e", "g">>
MimeGIF == <<"i", "m", "a", "g", "e", "/", "g", "i", "f">>
MimeWebP == <<"i", "m", "a", "g", "e", "/", "w", "e", "b", "p">>

allowedImageHosts == {HostFilesSlackCom, HostSlackEdgeCom, HostAvatarsSlackEdgeCom}
supportedImageMimeTypes == {MimePNG, MimeJPEG, MimeGIF, MimeWebP}

---------------------------------------------------------------------------
(* The host allowlist.                                                     *)

\* a plausible slip: the subdomain test without the separating dot
hostAllowed_NoDot(host) ==
    \/ host \in allowedImageHosts
    \/ \E allowed \in allowedImageHosts : HasSuffix(host, allowed)

\* the exact match and the subdomain match of isAllowedImageHost
hostAllowed(host) ==
    \/ host \in allowedImageHosts
    \/ \E allowed \in allowedImageHosts : HasSuffix(host, <<".">> \o allowed)

\* isAllowedImageHost once the URL is parsed
parsedAllowed(parsed) == IF parsed.err THEN FALSE ELSE hostAllowed(Hostname(parsed))

isAllowedImageHost(rawURL) == parsedAllowed(urlParse(rawURL))

---------------------------------------------------------------------------
(* Program constants.                                                      *)

MaxImageSize == 3932160
MaxImagesPerCall == 10
MaxConcurrentDownloads == 3
ImageDownloadTimeout == 30
DefaultJPEGQuality == 80
MinJPEGQuality == 40
JPEGQualityStep == 20

---------------------------------------------------------------------------
(* Byte slices.  A []byte is [head, pad, tail, pic]: the bytes of head,    *)
(* pad zero bytes, the bytes of tail.  pic is what the image codecs make   *)
(* of the bytes: whether png.Decode accepts them, whether jpeg.Encode then *)
(* succeeds, and the length of the JPEG it writes at each quality.         *)

NoPic == [dec |-> FALSE, enc |-> FALSE, jpeg |-> [q \in {} |-> 0]]

\* len(data)
Size(data) == Len(data.head) + data.pad + Len(data.tail)

\* data[i], i counted from 0
ByteAt(data, i) ==
    IF i < Len(data.head) THEN data.head[i + 1]
    ELSE IF i < Len(data.head) + data.pad THEN 0
    ELSE data.tail[i - Len(data.head) - data.pad + 1]

\* strings.ToLower on one ASCII byte
ToLowerByte(b) == IF b >= 65 /\ b <= 90 THEN b + 32 ELSE b

Min(a, b) == IF a <= b THEN a ELSE b
Max(a, b) == IF a >= b THEN a ELSE b

\* strings.Contains(strings.ToLower(string(data[from:to])), marker), for a
\* marker whose first byte is not zero: a match starts on a byte of head or
\* of tail, never on a pad byte
ContainsLower(data, from, to, marker) ==
    \E i \in (from..Min(to - Len(marker), Len(data.head) - 1))
             \cup (Max(from, Len(data.head) + data.pad)..(to - Len(marker))) :
        \A j \in 1..Len(marker) : ToLowerByte(ByteAt(data, i + j - 1)) = marker[j]

---------------------------------------------------------------------------
(* The content-type sniffer.                                               *)

\* the type/subtype part: what precedes the first ";", trimmed
stripParameters_NoTrim(trimmed, idx) ==
    IF idx # 0 THEN SubSeq(trimmed, 1, idx - 1) ELSE trimmed
stripParameters(trimmed, idx) ==
    IF idx # 0 THEN TrimSpace(SubSeq(trimmed, 1, idx - 1)) ELSE trimmed
normalizeMimeType(trimmed) == ToLower(stripParameters(trimmed, Index(trimmed, ";")))

isImageMimeType(mimeType) ==
    normalizeMimeType(TrimSpace(mimeType)) \in supportedImageMimeTypes

isValidImageData_NoMinimum(data) ==
    \/ /\ Size(data) >= 4
       /\ ByteAt(data, 0) = 137 /\ ByteAt(data, 1) = 80
       /\ ByteAt(data, 2) = 78 /\ ByteAt(data, 3) = 71
    \/ /\ Size(data) >= 3
       /\ ByteAt(data, 0) = 255 /\ ByteAt(data, 1) = 216 /\ ByteAt(data, 2) = 255
    \/ /\ Size(data) >= 6
       /\ ByteAt(data, 0) = 71 /\ ByteAt(data, 1) = 73 /\ ByteAt(data, 2) = 70
    \/ /\ Size(data) >= 12
       /\ ByteAt(data, 0) = 82 /\ ByteAt(data, 1) = 73
       /\ ByteAt(data, 2) = 70 /\ ByteAt(data, 3) = 70
       /\ ByteAt(data, 8) = 87 /\ ByteAt(data, 9) = 69
       /\ ByteAt(data, 10) = 66 /\ ByteAt(data, 11) = 80
isValidImageData(data) ==
    IF Size(data) < 8 THEN FALSE
    ELSE \/ \* PNG
            /\ ByteAt(data, 0) = 137 /\ ByteAt(data, 1) = 80
            /\ ByteAt(data, 2) = 78 /\ ByteAt(data, 3) = 71
         \/ \* JPEG
            /\ ByteAt(data, 0) = 255 /\ ByteAt(data, 1) = 216
            /\ ByteAt(data, 2) = 255
         \/ \* "GIF"
            /\ Size(data) >= 6
            /\ ByteAt(data, 0) = 71 /\ ByteAt(data, 1) = 73 /\ ByteAt(data, 2) = 70
         \/ \* "RIFF" .... "WEBP"
            /\ Size(data) >= 12
            /\ ByteAt(data, 0) = 82 /\ ByteAt(data, 1) = 73
            /\ ByteAt(data, 2) = 70 /\ ByteAt(data, 3) = 70
            /\ ByteAt(data, 8) = 87 /\ ByteAt(data, 9) = 69
            /\ ByteAt(data, 10) = 66 /\ ByteAt(data, 11) = 80

isHTMLContent(data) ==
    IF Size(data) < 15 THEN FALSE
    ELSE \/ \E marker \in { <<60, 33, 100, 111, 99, 116, 121, 112, 101>>,  \* <!doctype
                            <<60, 104, 116, 109, 108>>,                     \* <html
                            <<60, 104, 101, 97, 100>>,                      \* <head
                            <<60, 98, 111, 100, 121>> } :                   \* <body
              ContainsLower(data, 0, Min(500, Size(data)), marker)
         \/ /\ Size(data) > 20
            /\ \E marker \in { <<60, 47, 104, 116, 109, 108, 62>>,         \* </html>
                               <<60, 47, 98, 111, 100, 121, 62>> } :        \* </body>
                  ContainsLower(data, Size(data) - 20, Size(data), marker)

---------------------------------------------------------------------------
(* DownloadImage.  resp is what SlackFileDownloader.GetFileContext does    *)
(* with the request: [err, data], err also standing for the per-fetch      *)
(* timeout and a cancelled context.  The result is [err, data] with err    *)
(* "nil" or the kind of the error returned.                                *)

NoData == [head |-> <<>>, pad |-> 0, tail |-> <<>>, pic |-> NoPic]

\* a context derived from the context named parent (the caller's "ctx", or
\* "Background") with a timeout in seconds.  The deadline does not pass in
\* the model.
WithTimeout_Background(parent, timeout) == [parent |-> "Background", timeout |-> timeout]
WithTimeout(parent, timeout) == [parent |-> parent, timeout |-> timeout]

\* <-c.Done() is ready: the context it was derived from is cancelled
Done(c) == c.parent = "ctx" /\ ctx = "cancelled"

\* slackClient.GetFileContext(downloadCtx, url, &buf): the call in progress,
\* with the response it is about to give
GetFileContext(downloadCtx, resp) ==
    [ctx |-> downloadCtx, err |-> resp.err, data |-> resp.data]

\* a call made with a context that is done already fails
answers(all, downloadCtx) == IF Done(downloadCtx) THEN {r \in all : r.err} ELSE all

\* the part of DownloadImage after GetFileContext returned
DownloadImage_FormatFirst(resp) ==
    IF resp.err THEN [err |-> "download", data |-> NoData]
    ELSE IF ~isValidImageData(resp.data)
         THEN IF isHTMLContent(resp.data)
              THEN [err |-> "auth", data |-> NoData]
              ELSE [err |-> "format", data |-> NoData]
    ELSE IF Size(resp.data) > MaxImageSize THEN [err |-> "size", data |-> NoData]
    ELSE [err |-> "nil", data |-> resp.data]
DownloadImage(resp) ==
    IF resp.err THEN [err |-> "download", data |-> NoData]
    ELSE IF Size(resp.data) > MaxImageSize THEN [err |-> "size", data |-> NoData]
    ELSE IF ~isValidImageData(resp.data)
         THEN IF isHTMLContent(resp.data)
              THEN [err |-> "auth", data |-> NoData]
              ELSE [err |-> "format", data |-> NoData]
    ELSE [err |-> "nil", data |-> resp.data]

---------------------------------------------------------------------------
(* The budget compressor.                                                  *)

\* the bytes jpeg.Encode writes: SOI and APP0 marker, data, EOI marker
JPEGBytes(n) ==
    [head |-> <<255, 216, 255, 224>>, pad |-> n - 6, tail |-> <<255, 217>>,
     pic |-> NoPic]

\* compressPNGToJPEG: [err, data]
compressPNGToJPEG(pngData, quality) ==
    IF ~pngData.pic.dec THEN [err |-> TRUE, data |-> NoData]
    ELSE IF ~pngData.pic.enc THEN [err |-> TRUE, data |-> NoData]
    ELSE [err |-> FALSE, data |-> JPEGBytes(pngData.pic.jpeg[quality])]

qualities_Ascending ==
    <<MinJPEGQuality, DefaultJPEGQuality - JPEGQualityStep, DefaultJPEGQuality>>
qualities == <<DefaultJPEGQuality, DefaultJPEGQuality - JPEGQualityStep, MinJPEGQuality>>

\* the loop of CompressImageIfNeeded from the k-th quality on
RECURSIVE compressFrom(_, _, _, _)
compressFrom_Surface(result, data, remaining, k) ==
    IF ~data.pic.dec \/ ~data.pic.enc
    THEN [result EXCEPT !.Err = "compression failed"]
    ELSE [Data |-> JPEGBytes(data.pic.jpeg[DefaultJPEGQuality]), MimeType |-> MimeJPEG,
          WasConverted |-> TRUE, OriginalSize |-> result.OriginalSize,
          FinalSize |-> data.pic.jpeg[DefaultJPEGQuality], Err |-> "nil"]
compressFrom(result, data, remaining, k) ==
    IF k > Len(qualities) THEN result
    ELSE LET c == compressPNGToJPEG(data, qualities[k])
         IN IF c.err THEN compressFrom(result, data, remaining, k + 1)
            ELSE IF Size(c.data) <= remaining \/ qualities[k] = MinJPEGQuality
                 THEN [Data |-> c.data, MimeType |-> MimeJPEG, WasConverted |-> TRUE,
                       OriginalSize |-> result.OriginalSize, FinalSize |-> Size(c.data),
                       Err |-> "nil"]
                 ELSE compressFrom(result, data, remaining, k + 1)

\* CompressImageIfNeeded: the result with the error returned beside it as Err
CompressImageIfNeeded_OnlyIfOver(data, mimeType, remaining) ==
    LET result == [Data |-> data, MimeType |-> mimeType, WasConverted |-> FALSE,
                   OriginalSize |-> Size(data), FinalSize |-> Size(data),
                   Err |-> "nil"]
    IN IF mimeType # MimePNG \/ Size(data) <= remaining THEN result
       ELSE compressFrom(result, data, remaining, 1)
CompressImageIfNeeded_BySignature(data, mimeType, remaining) ==
    LET result == [Data |-> data, MimeType |-> mimeType, WasConverted |-> FALSE,
                   OriginalSize |-> Size(data), FinalSize |-> Size(data),
                   Err |-> "nil"]
    IN IF SubSeq(data.head, 1, 4) # <<137, 80, 78, 71>> THEN result
       ELSE compressFrom(result, data, remaining, 1)
CompressImageIfNeeded(data, mimeType, remaining) ==
    LET result == [Data |-> data, MimeType |-> mimeType, WasConverted |-> FALSE,
                   OriginalSize |-> Size(data), FinalSize |-> Size(data),
                   Err |-> "nil"]
    IN IF mimeType # MimePNG THEN result
       ELSE compressFrom(result, data, remaining, 1)

---------------------------------------------------------------------------
(* The reference locator.  An ImageInfo is                                 *)
(* [FileID, Name, MimeType, Size, URL, MsgTS].                             *)

NameImage == <<"i", "m", "a", "g", "e">>
ExtPng == <<".", "p", "n", "g">>
ExtJpg == <<".", "j", "p", "g">>
ExtJpeg == <<".", "j", "p", "e", "g">>
ExtGif == <<".", "g", "i", "f">>
ExtWebp == <<".", "w", "e", "b", "p">>

guessFromPath(path) ==
    IF HasSuffix(path, ExtPng) THEN MimePNG
    ELSE IF HasSuffix(path, ExtJpg) \/ HasSuffix(path, ExtJpeg) THEN MimeJPEG
    ELSE IF HasSuffix(path, ExtGif) THEN MimeGIF
    ELSE IF HasSuffix(path, ExtWebp) THEN MimeWebP
    ELSE MimePNG
guessFromParsed(parsed) == IF parsed.err THEN <<>> ELSE guessFromPath(ToLower(parsed.Path))
guessMimeTypeFromURL(rawURL) == guessFromParsed(urlParse(rawURL))

filenameOfPath(path, idx) ==
    IF idx # 0 /\ idx < Len(path) THEN SubSeq(path, idx + 1, Len(path)) ELSE NameImage
filenameFromParsed(parsed) ==
    IF parsed.err THEN NameImage
    ELSE filenameOfPath(parsed.Path, LastIndex(parsed.Path, "/"))
extractFilenameFromURL(rawURL) == filenameFromParsed(urlParse(rawURL))

\* the download URL of a file: URLPrivate, else URLPrivateDownload
fileDownloadURL_PreferDownload(file) ==
    IF file.URLPrivateDownload = <<>> THEN file.URLPrivate ELSE file.URLPrivateDownload
fileDownloadURL(file) ==
    IF file.URLPrivate = <<>> THEN file.URLPrivateDownload ELSE file.URLPrivate

\* the loop body of ExtractImagesFromMessage
extractFile(file, downloadURL, ts) ==
    IF ~isImageMimeType(file.Mimetype) \/ downloadURL = <<>>
    THEN <<>>
    ELSE << [FileID |-> file.ID, Name |-> file.Name, MimeType |-> file.Mimetype,
             Size |-> file.Size, URL |-> downloadURL, MsgTS |-> ts] >>

RECURSIVE extractFiles(_, _)
extractFiles(files, ts) ==
    IF files = <<>> THEN <<>>
    ELSE extractFile(Head(files), fileDownloadURL(Head(files)), ts)
         \o extractFiles(Tail(files), ts)

ExtractImagesFromMessage(m) == extractFiles(m.Files, m.Timestamp)

\* the ImageInfo made of an attachment URL
attachmentImageOf(rawURL, mimeType, name, msgTS) ==
    IF isImageMimeType(mimeType)
    THEN << [FileID |-> <<>>, Name |-> name, MimeType |-> mimeType, Size |-> 0,
             URL |-> rawURL, MsgTS |-> msgTS] >>
    ELSE <<>>
attachmentImage(rawURL, msgTS) ==
    attachmentImageOf(rawURL, guessMimeTypeFromURL(rawURL),
                      extractFilenameFromURL(rawURL), msgTS)

\* the loop body of ExtractImagesFromAttachments; full and thumb say whether
\* ImageURL and ThumbURL are non-empty and on an allowed host
extractAttachment_Both(attachment, msgTS, full, thumb) ==
    (IF full THEN attachmentImage(attachment.ImageURL, msgTS) ELSE <<>>)
    \o (IF thumb THEN attachmentImage(attachment.ThumbURL, msgTS) ELSE <<>>)
extractAttachment(attachment, msgTS, full, thumb) ==
    (IF full THEN attachmentImage(attachment.ImageURL, msgTS) ELSE <<>>)
    \o (IF thumb /\ ~full THEN attachmentImage(attachment.ThumbURL, msgTS) ELSE <<>>)

\* attachment.X != "" && isAllowedImageHost(attachment.X)
usableURL_NonEmpty(rawURL) == rawURL # <<>>
usableURL(rawURL) == rawURL # <<>> /\ isAllowedImageHost(rawURL)

RECURSIVE ExtractImagesFromAttachments(_, _)
ExtractImagesFromAttachments(attachments, msgTS) ==
    IF attachments = <<>> THEN <<>>
    ELSE extractAttachment(Head(attachments), msgTS,
                           usableURL(Head(attachments).ImageURL),
                           usableURL(Head(attachments).ThumbURL))
         \o ExtractImagesFromAttachments(Tail(attachments), msgTS)

---------------------------------------------------------------------------
(* Go maps, and the key of a reference.                                    *)

Put(m, k, v) == [x \in DOMAIN m \cup {k} |-> IF x = k THEN v ELSE m[x]]

\* one more GetFileContext call with this URL
Called(calls, url) ==
    Put(calls, url, IF url \in DOMAIN calls THEN calls[url] + 1 ELSE 1)

\* key := img.FileID; if key == "" { key = img.URL }
imageKey_FileIDOnly(img) == img.FileID
imageKey(img) == IF img.FileID = <<>> THEN img.URL ELSE img.FileID

\* images[:MaxImagesPerCall] when there are more
truncate_Keep(list) == list
truncate(list) ==
    IF Len(list) > MaxImagesPerCall THEN SubSeq(list, 1, MaxImagesPerCall) ELSE list

\* the warning texts: "Skipped image: image '%s' size %d bytes exceeds limit"
\* and "Skipped image: %v" with the error of DownloadImage
declaredSizeWarning(img) == [kind |-> "declared", name |-> img.Name, size |-> img.Size]
errorWarning(err) == [kind |-> err, name |-> <<>>, size |-> 0]

---------------------------------------------------------------------------
(* The content packager.  A content item is an mcp.ImageContent            *)
(* [Type, Data, MIMEType] with Data the base64 text of the bytes.          *)

\* base64.StdEncoding.EncodeToString: the text stands for the bytes it
\* encodes and has four characters for every three bytes, padded
EncodeToString(data) == [base64 |-> data, len |-> 4 * ((Size(data) + 2) \div 3)]

\* mcp.NewImageContent
NewImageContent(encoded, mimeType) ==
    [Type |-> "image", Data |-> encoded, MIMEType |-> mimeType]

RECURSIVE ImagesToMCPContent(_, _, _)
ImagesToMCPContent(list, data, overrides) ==
    IF list = <<>> THEN <<>>
    ELSE LET img == Head(list)
             key == imageKey(img)
             mimeType == IF key \in DOMAIN overrides THEN overrides[key]
                         ELSE img.MimeType
             item == IF key \in DOMAIN data
                     THEN << NewImageContent(EncodeToString(data[key]), mimeType) >>
                     ELSE <<>>
         IN item \o ImagesToMCPContent(Tail(list), data, overrides)

---------------------------------------------------------------------------
(* Values of the variables a specification does not use.                   *)

NoMap == [k \in {} |-> <<>>]

\* the Slack client: what its GetFileContext answers is not fixed
SlackAPI == [mock |-> FALSE, files |-> NoMap]

\* mockSlackFileDownloader.GetFileContext with a nil err field
mockGetFileContext(files, downloadURL) ==
    IF downloadURL \in DOMAIN files THEN [err |-> FALSE, data |-> files[downloadURL]]
    ELSE [err |-> TRUE, data |-> NoData]

\* what GetFileContext may answer for a URL: one of all for the Slack client
responses(all, downloadURL) ==
    IF slackClient.mock THEN {mockGetFileContext(slackClient.files, downloadURL)}
    ELSE all

PureIdle ==
    /\ call = [fn |-> "none", rawURL |-> <<>>]
    /\ ret = FALSE
    /\ returned = FALSE

PipeIdle ==
    /\ mode = "none"
    /\ pc = "idle"
    /\ ctx = "active"
    /\ slackClient = SlackAPI
    /\ msg = [Timestamp |-> <<>>, Files |-> <<>>, Attachments |-> <<>>]
    /\ refs = <<>>
    /\ images = <<>>
    /\ budget = 0
    /\ next = 1
    /\ inflight = NoMap
    /\ fetched = NoMap
    /\ imageData = NoMap
    /\ mimeTypeOverrides = NoMap
    /\ skippedImages = <<>>
    /\ warnings = <<>>
    /\ cumulativeSize = 0
    /\ budgetExceeded = FALSE
    /\ outcome = <<>>
    /\ content = <<>>

PoolIdle ==
    /\ semaphore = 0
    /\ resultChan = <<>>
    /\ chanClosed = FALSE
    /\ wg = 0
    /\ worker = <<>>

---------------------------------------------------------------------------
(* The inputs of the pipeline: messages, budgets and what the network      *)
(* returns.                                                                *)

MaxRefs == 3

TS == <<"1", "2", "3", "4", "5", "6", "7", "8", "9", "0", ".", "1", "2", "3", "4", "5", "6">>
UrlA == <<"h", "t", "t", "p", "s", ":", "/", "/", "f", "i", "l", "e", "s", ".", "s", "l", "a", "c", "k", ".", "c", "o", "m", "/", "a", ".", "p", "n", "g">>
UrlB == <<"h", "t", "t", "p", "s", ":", "/", "/", "f", "i", "l", "e", "s", ".", "s", "l", "a", "c", "k", ".", "c", "o", "m", "/", "b", ".", "j", "p", "g">>
UrlEvil == <<"h", "t", "t", "p", "s", ":", "/", "/", "e", "v", "i", "l", ".", "c", "o", "m", "/", "x", ".", "p", "n", "g">>
UrlThumb == <<"h", "t", "t", "p", "s", ":", "/", "/", "a", ".", "s", "l", "a", "c", "k", "-", "e", "d", "g", "e", ".", "c", "o", "m", "/", "t", ".", "g", "i", "f">>
IdF1 == <<"F", "1">>
IdF2 == <<"F", "2">>
IdF3 == <<"F", "3">>
IdF4 == <<"F", "4">>
IdF5 == <<"F", "5">>
NameA == <<"a", ".", "p", "n", "g">>
NameB == <<"b", ".", "j", "p", "g">>
NameBig == <<"b", "i", "g", ".", "p", "n", "g">>
NameX == <<"x", ".", "p", "n", "g">>
NameDoc == <<"d", "o", "c", ".", "p", "d", "f">>
MimePDF == <<"a", "p", "p", "l", "i", "c", "a", "t", "i", "o", "n", "/", "p", "d", "f">>

File(id, name, mimetype, size, urlPrivate, urlPrivateDownload) ==
    [ID |-> id, Name |-> name, Mimetype |-> mimetype, Size |-> size,
     URLPrivate |-> urlPrivate, URLPrivateDownload |-> urlPrivateDownload]

FileA == File(IdF1, NameA, MimePNG, 1000, UrlA, <<>>)
FileB == File(IdF2, NameB, MimeJPEG, 1000, <<>>, UrlB)
FileBig == File(IdF3, NameBig, MimePNG, MaxImageSize + 1, UrlA, <<>>)
FileEvil == File(IdF4, NameX, MimePNG, 500, UrlEvil, <<>>)
FileDoc == File(IdF5, NameDoc, MimePDF, 2048, UrlB, <<>>)
Files == {FileA, FileB, FileBig, FileEvil, FileDoc}

AttFull == [ImageURL |-> UrlA, ThumbURL |-> UrlThumb]
AttBlockedFull == [ImageURL |-> UrlEvil, ThumbURL |-> UrlThumb]
AttEvilThumb == [ImageURL |-> <<>>, ThumbURL |-> UrlEvil]
Attachments == {AttFull, AttBlockedFull, AttEvilThumb}

SeqsUpTo(S, n) == UNION {[1..k -> S] : k \in 0..n}

Messages ==
    {[Timestamp |-> TS, Files |-> fs, Attachments |-> <<>>] : fs \in SeqsUpTo(Files, MaxRefs)}
    \cup
    {[Timestamp |-> TS, Files |-> <<>>, Attachments |-> as] :
        as \in SeqsUpTo(Attachments, MaxRefs)}

Budgets == {-1, 1000, 1500}

\* pool mode: the first files of a fixed list, up to one more than there are
\* download slots so that a goroutine has to wait; the second is declared too large
PoolRefs == MaxConcurrentDownloads + 1
IdP(i) == <<"P", <<"1", "2", "3", "4", "5", "6", "7", "8", "9">>[i]>>
UrlP(i) == SubSeq(UrlA, 1, 24) \o <<"p">> \o IdP(i) \o <<".", "p", "n", "g">>
PoolFile(i) ==
    File(IdP(i), NameA, MimePNG, IF i = 2 THEN MaxImageSize + 1 ELSE 1000, UrlP(i), <<>>)
PoolMessages ==
    {[Timestamp |-> TS, Files |-> [i \in 1..n |-> PoolFile(i)], Attachments |-> <<>>] :
        n \in 0..PoolRefs}

PNGSignature == <<137, 80, 78, 71, 13, 10, 26, 10>>

\* PNG magic bytes followed by zeros: not decodable
BlobFakePNG == [head |-> PNGSignature, pad |-> 992, tail |-> <<>>, pic |-> NoPic]
\* a PNG that decodes; its JPEG is 1200, 800 or 500 bytes long
BlobPNG ==
    [head |-> PNGSignature, pad |-> 1992, tail |-> <<>>,
     pic |-> [dec |-> TRUE, enc |-> TRUE,
              jpeg |-> (80 :> 1200) @@ (60 :> 800) @@ (40 :> 500)]]
BlobJPEG == [head |-> <<255, 216, 255, 224>>, pad |-> 994, tail |-> <<255, 217>>,
             pic |-> NoPic]
\* "<!DOCTYPE html>" ... "</body></html>"
BlobHTML ==
    [head |-> <<60, 33, 68, 79, 67, 84, 89, 80, 69, 32, 104, 116, 109, 108, 62>>,
     pad |-> 600,
     tail |-> <<60, 47, 98, 111, 100, 121, 62, 60, 47, 104, 116, 109, 108, 62>>,
     pic |-> NoPic]
BlobJunk == [head |-> <<1, 2, 3, 4>>, pad |-> 96, tail |-> <<>>, pic |-> NoPic]
\* "GIF89a" and nothing else
BlobShort == [head |-> <<71, 73, 70, 56, 57, 97>>, pad |-> 0, tail |-> <<>>,
              pic |-> NoPic]
BlobOversize == [head |-> PNGSignature, pad |-> MaxImageSize, tail |-> <<>>,
                 pic |-> NoPic]
Blobs == {BlobFakePNG, BlobPNG, BlobJPEG, BlobHTML, BlobJunk, BlobShort, BlobOversize}
NetworkBlobs == {BlobFakePNG, BlobPNG, BlobHTML}

Responses ==
    {[err |-> TRUE, data |-> NoData]} \cup {[err |-> FALSE, data |-> d] : d \in NetworkBlobs}
PoolResponses == {[err |-> TRUE, data |-> NoData], [err |-> FALSE, data |-> BlobFakePNG]}

---------------------------------------------------------------------------
(* The pipeline: extraction.                                               *)

InitBudget ==
    /\ PureIdle
    /\ PoolIdle
    /\ mode = "budget"
    /\ pc = "start"
    /\ ctx = "active"
    /\ slackClient = SlackAPI
    /\ msg \in Messages
    /\ budget \in Budgets
    /\ refs = <<>>
    /\ images = <<>>
    /\ next = 1
    /\ inflight = NoMap
    /\ fetched = NoMap
    /\ imageData = NoMap
    /\ mimeTypeOverrides = NoMap
    /\ skippedImages = <<>>
    /\ warnings = <<>>
    /\ cumulativeSize = 0
    /\ budgetExceeded = FALSE
    /\ outcome = <<>>
    /\ content = <<>>

InitPool ==
    /\ PureIdle
    /\ PoolIdle
    /\ mode = "pool"
    /\ pc = "start"
    /\ ctx = "active"
    /\ slackClient = SlackAPI
    /\ msg \in PoolMessages
    /\ budget = 0
    /\ refs = <<>>
    /\ images = <<>>
    /\ next = 1
    /\ inflight = NoMap
    /\ fetched = NoMap
    /\ imageData = NoMap
    /\ mimeTypeOverrides = NoMap
    /\ skippedImages = <<>>
    /\ warnings = <<>>
    /\ cumulativeSize = 0
    /\ budgetExceeded = FALSE
    /\ outcome = <<>>
    /\ content = <<>>

Init == InitBudget \/ InitPool

\* the caller extracts the references of the message's files
ExtractFromMessage ==
    /\ pc = "start"
    /\ msg.Attachments = <<>>
    /\ refs' = ExtractImagesFromMessage(msg)
    /\ pc' = "extracted"
    /\ UNCHANGED <<pureVars, slackClient, ctx, poolVars, mode, msg, images, budget, next, inflight,
                   fetched, imageData, mimeTypeOverrides, skippedImages, warnings,
                   cumulativeSize, budgetExceeded, outcome, content>>

\* the caller extracts the references of the message's attachments
ExtractFromAttachments ==
    /\ pc = "start"
    /\ msg.Files = <<>>
    /\ refs' = ExtractImagesFromAttachments(msg.Attachments, msg.Timestamp)
    /\ pc' = "extracted"
    /\ UNCHANGED <<pureVars, slackClient, ctx, poolVars, mode, msg, images, budget, next, inflight,
                   fetched, imageData, mimeTypeOverrides, skippedImages, warnings,
                   cumulativeSize, budgetExceeded, outcome, content>>

\* the caller packages what the downloader returned
Package ==
    /\ pc = "returned"
    /\ content' = ImagesToMCPContent(refs, imageData, mimeTypeOverrides)
    /\ pc' = "done"
    /\ UNCHANGED <<pureVars, slackClient, ctx, poolVars, mode, msg, refs, images, budget, next,
                   inflight, fetched, imageData, mimeTypeOverrides, skippedImages,
                   warnings, cumulativeSize, budgetExceeded, outcome>>

---------------------------------------------------------------------------
(* DownloadImagesWithBudget.                                               *)

\* the head of the loop body: skip for budget, skip for declared size, or fetch
loopBranch_SizeFirst(img, exceeded) ==
    IF img.Size > MaxImageSize THEN "skipped-too-large"
    ELSE IF exceeded THEN "skipped-budget"
    ELSE "fetch"
loopBranch_SizeIsBudget(img, exceeded) ==
    IF exceeded \/ img.Size > MaxImageSize THEN "skipped-budget" ELSE "fetch"
loopBranch(img, exceeded) ==
    IF exceeded THEN "skipped-budget"
    ELSE IF img.Size > MaxImageSize THEN "skipped-too-large"
    ELSE "fetch"

\* if cumulativeSize+len(data) > budget
overBudget_PositiveOnly(total, n, b) == b >= 0 /\ total + n > b
overBudget_IgnoreTotal(total, n, b) == n > b
overBudget_Strict(total, n, b) == total + n >= b
overBudget(total, n, b) == total + n > b

\* cumulativeSize += len(data)
addSize_Assign(total, n) == n
addSize(total, n) == total + n

\* skippedImages = append(skippedImages, img)
appendSkipped_Drop(list, img) == list
appendSkipped(list, img) == Append(list, img)

\* warnings = append(warnings, ...)
appendWarning_Drop(list, w) == list
appendWarning(list, w) == Append(list, w)

CallDownloadImagesWithBudget ==
    /\ pc = "extracted"
    /\ mode = "budget"
    /\ images' = truncate(refs)
    /\ pc' = IF Len(images') = 0 THEN "returned" ELSE "loop"
    /\ next' = 1
    /\ imageData' = NoMap
    /\ mimeTypeOverrides' = NoMap
    /\ skippedImages' = <<>>
    /\ warnings' = <<>>
    /\ cumulativeSize' = 0
    /\ budgetExceeded' = FALSE
    /\ UNCHANGED <<pureVars, slackClient, ctx, poolVars, mode, msg, refs, budget, inflight, fetched,
                   outcome, content>>

BudgetSkipExceeded ==
    /\ pc = "loop"
    /\ next <= Len(images)
    /\ loopBranch(images[next], budgetExceeded) = "skipped-budget"
    /\ skippedImages' = appendSkipped(skippedImages, images[next])
    /\ outcome' = Append(outcome, "skipped-budget")
    /\ next' = next + 1
    /\ UNCHANGED <<pureVars, slackClient, ctx, poolVars, mode, pc, msg, refs, images, budget, inflight,
                   fetched, imageData, mimeTypeOverrides, warnings, cumulativeSize,
                   budgetExceeded, content>>

BudgetSkipTooLarge ==
    /\ pc = "loop"
    /\ next <= Len(images)
    /\ loopBranch(images[next], budgetExceeded) = "skipped-too-large"
    /\ warnings' = appendWarning(warnings, declaredSizeWarning(images[next]))
    /\ outcome' = Append(outcome, "skipped-too-large")
    /\ next' = next + 1
    /\ UNCHANGED <<pureVars, slackClient, ctx, poolVars, mode, pc, msg, refs, images, budget, inflight,
                   fetched, imageData, mimeTypeOverrides, skippedImages,
                   cumulativeSize, budgetExceeded, content>>

\* DownloadImage calls GetFileContext
BudgetStartFetch_Ahead ==
    /\ pc = "loop"
    /\ next <= Len(images)
    /\ loopBranch(images[next], budgetExceeded) = "fetch"
    /\ \E resp \in answers(responses(Responses, images[next].URL),
                           WithTimeout("ctx", ImageDownloadTimeout)) :
           inflight' = [i \in {j \in {next, next + 1} : j <= Len(images)} |->
                           GetFileContext(WithTimeout("ctx", ImageDownloadTimeout),
                                          resp)]
    /\ fetched' = Called(fetched, images[next].URL)
    /\ pc' = "fetching"
    /\ UNCHANGED <<pureVars, slackClient, ctx, poolVars, mode, msg, refs, images,
                   budget, next, imageData, mimeTypeOverrides, skippedImages,
                   warnings, cumulativeSize, budgetExceeded, outcome, content>>
BudgetStartFetch ==
    /\ pc = "loop"
    /\ next <= Len(images)
    /\ loopBranch(images[next], budgetExceeded) = "fetch"
    /\ \E resp \in answers(responses(Responses, images[next].URL),
                           WithTimeout("ctx", ImageDownloadTimeout)) :
           inflight' = (next :> GetFileContext(WithTimeout("ctx", ImageDownloadTimeout),
                                               resp))
    /\ fetched' = Called(fetched, images[next].URL)
    /\ pc' = "fetching"
    /\ UNCHANGED <<pureVars, slackClient, ctx, poolVars, mode, msg, refs, images, budget, next,
                   imageData, mimeTypeOverrides, skippedImages, warnings,
                   cumulativeSize, budgetExceeded, outcome, content>>

BudgetFetchFailed_Retry ==
    /\ pc = "fetching"
    /\ DownloadImage(inflight[next]).err # "nil"
    /\ inflight' = NoMap
    /\ pc' = "loop"
    /\ UNCHANGED <<pureVars, slackClient, ctx, poolVars, mode, msg, refs, images, budget, next, fetched,
                   imageData, mimeTypeOverrides, skippedImages, warnings,
                   cumulativeSize, budgetExceeded, outcome, content>>
BudgetFetchFailed_TripsFlag ==
    /\ pc = "fetching"
    /\ DownloadImage(inflight[next]).err # "nil"
    /\ warnings' = appendWarning(warnings,
                                errorWarning(DownloadImage(inflight[next]).err))
    /\ budgetExceeded' = TRUE
    /\ outcome' = Append(outcome, "skipped-error")
    /\ inflight' = NoMap
    /\ next' = next + 1
    /\ pc' = "loop"
    /\ UNCHANGED <<pureVars, slackClient, ctx, poolVars, mode, msg, refs, images, budget, fetched,
                   imageData, mimeTypeOverrides, skippedImages, cumulativeSize,
                   content>>

\* DownloadImage returns an error
BudgetFetchFailed ==
    /\ pc = "fetching"
    /\ DownloadImage(inflight[next]).err # "nil"
    /\ warnings' = appendWarning(warnings,
                                errorWarning(DownloadImage(inflight[next]).err))
    /\ outcome' = Append(outcome, "skipped-error")
    /\ inflight' = NoMap
    /\ next' = next + 1
    /\ pc' = "loop"
    /\ UNCHANGED <<pureVars, slackClient, ctx, poolVars, mode, msg, refs, images, budget, fetched,
                   imageData, mimeTypeOverrides, skippedImages, cumulativeSize,
                   budgetExceeded, content>>

\* the compressed image does not fit
BudgetOverBudget ==
    /\ pc = "fetching"
    /\ DownloadImage(inflight[next]).err = "nil"
    /\ LET img == images[next]
           compResult == CompressImageIfNeeded(DownloadImage(inflight[next]).data,
                                               img.MimeType, budget - cumulativeSize)
       IN /\ overBudget(cumulativeSize, Size(compResult.Data), budget)
          /\ mimeTypeOverrides' =
                 IF compResult.WasConverted
                 THEN Put(mimeTypeOverrides, imageKey(img), compResult.MimeType)
                 ELSE mimeTypeOverrides
          /\ budgetExceeded' = TRUE
          /\ skippedImages' = appendSkipped(skippedImages, img)
    /\ outcome' = Append(outcome, "skipped-budget")
    /\ inflight' = NoMap
    /\ next' = next + 1
    /\ pc' = "loop"
    /\ UNCHANGED <<pureVars, slackClient, ctx, poolVars, mode, msg, refs, images, budget, fetched,
                   imageData, warnings, cumulativeSize, content>>

\* the compressed image fits
BudgetInclude ==
    /\ pc = "fetching"
    /\ DownloadImage(inflight[next]).err = "nil"
    /\ LET img == images[next]
           compResult == CompressImageIfNeeded(DownloadImage(inflight[next]).data,
                                               img.MimeType, budget - cumulativeSize)
       IN /\ ~overBudget(cumulativeSize, Size(compResult.Data), budget)
          /\ mimeTypeOverrides' =
                 IF compResult.WasConverted
                 THEN Put(mimeTypeOverrides, imageKey(img), compResult.MimeType)
                 ELSE mimeTypeOverrides
          /\ imageData' = Put(imageData, imageKey(img), compResult.Data)
          /\ cumulativeSize' = addSize(cumulativeSize, Size(compResult.Data))
    /\ outcome' = Append(outcome, "included")
    /\ inflight' = NoMap
    /\ next' = next + 1
    /\ pc' = "loop"
    /\ UNCHANGED <<pureVars, slackClient, ctx, poolVars, mode, msg, refs, images, budget, fetched,
                   skippedImages, warnings, budgetExceeded, content>>

BudgetReturn ==
    /\ pc = "loop"
    /\ next > Len(images)
    /\ pc' = "returned"
    /\ UNCHANGED <<pureVars, slackClient, ctx, poolVars, mode, msg, refs, images, budget, next,
                   inflight, fetched, imageData, mimeTypeOverrides, skippedImages,
                   warnings, cumulativeSize, budgetExceeded, outcome, content>>

---------------------------------------------------------------------------
(* DownloadImagesWithConcurrencyLimit.  worker[w] is the position of the   *)
(* goroutine started for images[w]:                                        *)
(*   "idle"     not started                                                *)
(*   "acquire"  at semaphore <- struct{}{}                                 *)
(*   "holding"  holds a slot, before the declared-size check               *)
(*   "fetching" in DownloadImage, GetFileContext called                    *)
(*   "release"  result sent, at the deferred <-semaphore                   *)
(*   "wgdone"   slot released, at the deferred wg.Done()                   *)
(*   "done"     finished                                                   *)
(* An imageDownloadResult is [FileID, Data, Error], Error "nil" or the     *)
(* text of the error.                                                      *)

\* a send on a buffered channel proceeds while the buffer has room
canSend_Always(n, capacity) == TRUE
canSend(n, capacity) == n < capacity

CallDownloadImagesWithConcurrencyLimit ==
    /\ pc = "extracted"
    /\ mode = "pool"
    /\ images' = truncate(refs)
    /\ pc' = IF Len(images') = 0 THEN "returned" ELSE "spawn"
    /\ next' = 1
    /\ semaphore' = 0
    /\ resultChan' = <<>>
    /\ chanClosed' = FALSE
    /\ wg' = 0
    /\ worker' = [w \in 1..Len(images') |-> "idle"]
    /\ imageData' = NoMap
    /\ warnings' = <<>>
    /\ UNCHANGED <<pureVars, slackClient, ctx, mode, msg, refs, budget, inflight, fetched,
                   mimeTypeOverrides, skippedImages, cumulativeSize, budgetExceeded,
                   outcome, content>>

\* wg.Add(1); go func(image ImageInfo) {...}(img)
Spawn ==
    /\ pc = "spawn"
    /\ next <= Len(images)
    /\ wg' = wg + 1
    /\ worker' = [worker EXCEPT ![next] = "acquire"]
    /\ next' = next + 1
    /\ UNCHANGED <<pureVars, slackClient, ctx, mode, pc, msg, refs, images, budget, inflight, fetched,
                   imageData, mimeTypeOverrides, skippedImages, warnings,
                   cumulativeSize, budgetExceeded, outcome, content, semaphore,
                   resultChan, chanClosed>>

\* go func() { wg.Wait(); close(resultChan) }() and on to the collecting loop
StartCollecting ==
    /\ pc = "spawn"
    /\ next > Len(images)
    /\ pc' = "collect"
    /\ UNCHANGED <<pureVars, slackClient, ctx, poolVars, mode, msg, refs, images, budget, next,
                   inflight, fetched, imageData, mimeTypeOverrides, skippedImages,
                   warnings, cumulativeSize, budgetExceeded, outcome, content>>

\* semaphore <- struct{}{} blocks while the channel is full
WorkerAcquire(w) ==
    /\ worker[w] = "acquire"
    /\ canSend(semaphore, MaxConcurrentDownloads)
    /\ semaphore' = semaphore + 1
    /\ worker' = [worker EXCEPT ![w] = "holding"]
    /\ UNCHANGED <<pureVars, slackClient, ctx, pipeVars, resultChan, chanClosed, wg>>

WorkerSkipTooLarge_NoRelease(w) ==
    /\ worker[w] = "holding"
    /\ images[w].Size > MaxImageSize
    /\ ~chanClosed
    /\ canSend(Len(resultChan), Len(images))
    /\ resultChan' = Append(resultChan,
                            [FileID |-> imageKey(images[w]), Data |-> NoData,
                             Error |-> declaredSizeWarning(images[w])])
    /\ worker' = [worker EXCEPT ![w] = "wgdone"]
    /\ UNCHANGED <<pureVars, slackClient, ctx, pipeVars, semaphore, chanClosed, wg>>

\* image.Size > MaxImageSize: send the error result and return
WorkerSkipTooLarge(w) ==
    /\ worker[w] = "holding"
    /\ images[w].Size > MaxImageSize
    /\ ~chanClosed
    /\ canSend(Len(resultChan), Len(images))
    /\ resultChan' = Append(resultChan,
                            [FileID |-> imageKey(images[w]), Data |-> NoData,
                             Error |-> declaredSizeWarning(images[w])])
    /\ worker' = [worker EXCEPT ![w] = "release"]
    /\ UNCHANGED <<pureVars, slackClient, ctx, pipeVars, semaphore, chanClosed, wg>>

\* DownloadImage calls GetFileContext
WorkerStartFetch(w) ==
    /\ worker[w] = "holding"
    /\ ~(images[w].Size > MaxImageSize)
    /\ \E resp \in answers(responses(PoolResponses, images[w].URL),
                           WithTimeout("ctx", ImageDownloadTimeout)) :
           inflight' = (w :> GetFileContext(WithTimeout("ctx", ImageDownloadTimeout),
                                            resp)) @@ inflight
    /\ fetched' = Called(fetched, images[w].URL)
    /\ worker' = [worker EXCEPT ![w] = "fetching"]
    /\ UNCHANGED <<pureVars, slackClient, ctx, poolVarsButWorker, mode, pc, msg, refs, images, budget,
                   next, imageData, mimeTypeOverrides, skippedImages, warnings,
                   cumulativeSize, budgetExceeded, outcome, content>>

\* DownloadImage returns; the result is sent
WorkerFetchReturn_LoopVariable(w) ==
    /\ worker[w] = "fetching"
    /\ ~chanClosed
    /\ canSend(Len(resultChan), Len(images))
    /\ resultChan' = Append(resultChan,
                            [FileID |-> imageKey(images[next - 1]),
                             Data |-> DownloadImage(inflight[w]).data,
                             Error |-> errorWarning(DownloadImage(inflight[w]).err)])
    /\ inflight' = [x \in DOMAIN inflight \ {w} |-> inflight[x]]
    /\ worker' = [worker EXCEPT ![w] = "release"]
    /\ UNCHANGED <<pureVars, slackClient, ctx, semaphore, chanClosed, wg, mode, pc, msg, refs, images,
                   budget, next, fetched, imageData, mimeTypeOverrides,
                   skippedImages, warnings, cumulativeSize, budgetExceeded, outcome,
                   content>>
WorkerFetchReturn(w) ==
    /\ worker[w] = "fetching"
    /\ ~chanClosed
    /\ canSend(Len(resultChan), Len(images))
    /\ resultChan' = Append(resultChan,
                            [FileID |-> imageKey(images[w]),
                             Data |-> DownloadImage(inflight[w]).data,
                             Error |-> errorWarning(DownloadImage(inflight[w]).err)])
    /\ inflight' = [x \in DOMAIN inflight \ {w} |-> inflight[x]]
    /\ worker' = [worker EXCEPT ![w] = "release"]
    /\ UNCHANGED <<pureVars, slackClient, ctx, semaphore, chanClosed, wg, mode, pc, msg, refs, images,
                   budget, next, fetched, imageData, mimeTypeOverrides,
                   skippedImages, warnings, cumulativeSize, budgetExceeded, outcome,
                   content>>

\* defer func() { <-semaphore }()
WorkerRelease(w) ==
    /\ worker[w] = "release"
    /\ semaphore > 0
    /\ semaphore' = semaphore - 1
    /\ worker' = [worker EXCEPT ![w] = "wgdone"]
    /\ UNCHANGED <<pureVars, slackClient, ctx, pipeVars, resultChan, chanClosed, wg>>

\* defer wg.Done()
WorkerDone(w) ==
    /\ worker[w] = "wgdone"
    /\ wg' = wg - 1
    /\ worker' = [worker EXCEPT ![w] = "done"]
    /\ UNCHANGED <<pureVars, slackClient, ctx, pipeVars, semaphore, resultChan, chanClosed>>

\* wg.Wait() returns; close(resultChan)
CloserClose_Early ==
    /\ pc = "collect"
    /\ ~chanClosed
    /\ chanClosed' = TRUE
    /\ UNCHANGED <<pureVars, slackClient, ctx, pipeVars, semaphore, resultChan, wg, worker>>
CloserClose ==
    /\ pc = "collect"
    /\ wg = 0
    /\ ~chanClosed
    /\ chanClosed' = TRUE
    /\ UNCHANGED <<pureVars, slackClient, ctx, pipeVars, semaphore, resultChan, wg, worker>>

\* one iteration of for result := range resultChan
Collect ==
    /\ pc = "collect"
    /\ resultChan # <<>>
    /\ LET result == Head(resultChan)
       IN IF result.Error.kind # "nil"
          THEN /\ warnings' = appendWarning(warnings, result.Error)
               /\ UNCHANGED imageData
          ELSE /\ imageData' = Put(imageData, result.FileID, result.Data)
               /\ UNCHANGED warnings
    /\ resultChan' = Tail(resultChan)
    /\ UNCHANGED <<pureVars, slackClient, ctx, semaphore, chanClosed, wg, worker, mode, pc, msg, refs,
                   images, budget, next, inflight, fetched, mimeTypeOverrides,
                   skippedImages, cumulativeSize, budgetExceeded, outcome, content>>

\* the channel is closed and drained: return imageData, warnings
PoolReturn ==
    /\ pc = "collect"
    /\ resultChan = <<>>
    /\ chanClosed
    /\ pc' = "returned"
    /\ UNCHANGED <<pureVars, slackClient, ctx, poolVars, mode, msg, refs, images, budget, next,
                   inflight, fetched, imageData, mimeTypeOverrides, skippedImages,
                   warnings, cumulativeSize, budgetExceeded, outcome, content>>

---------------------------------------------------------------------------
(* The specifications.                                                     *)

Next ==
    \/ ExtractFromMessage
    \/ ExtractFromAttachments
    \/ CallDownloadImagesWithBudget
    \/ BudgetSkipExceeded
    \/ BudgetSkipTooLarge
    \/ BudgetStartFetch
    \/ BudgetFetchFailed
    \/ BudgetOverBudget
    \/ BudgetInclude
    \/ BudgetReturn
    \/ CallDownloadImagesWithConcurrencyLimit
    \/ Spawn
    \/ StartCollecting
    \/ \E w \in DOMAIN worker : WorkerAcquire(w)
    \/ \E w \in DOMAIN worker : WorkerSkipTooLarge(w)
    \/ \E w \in DOMAIN worker : WorkerStartFetch(w)
    \/ \E w \in DOMAIN worker : WorkerFetchReturn(w)
    \/ \E w \in DOMAIN worker : WorkerRelease(w)
    \/ \E w \in DOMAIN worker : WorkerDone(w)
    \/ CloserClose
    \/ Collect
    \/ PoolReturn
    \/ Package

\* both modes
Spec == Init /\ [][Next]_vars

NextPool ==
    \/ ExtractFromMessage
    \/ CallDownloadImagesWithConcurrencyLimit
    \/ Spawn
    \/ StartCollecting
    \/ \E w \in DOMAIN worker : WorkerAcquire(w)
    \/ \E w \in DOMAIN worker : WorkerSkipTooLarge(w)
    \/ \E w \in DOMAIN worker : WorkerStartFetch(w)
    \/ \E w \in DOMAIN worker : WorkerFetchReturn(w)
    \/ \E w \in DOMAIN worker : WorkerRelease(w)
    \/ \E w \in DOMAIN worker : WorkerDone(w)
    \/ CloserClose
    \/ Collect
    \/ PoolReturn
    \/ Package

\* pool mode alone
SpecPool == InitPool /\ [][NextPool]_vars

\* pool mode with the Go scheduler: a goroutine that can run eventually runs,
\* and every GetFileContext call returns
LiveSpecPool == SpecPool /\ WF_vars(NextPool)

---------------------------------------------------------------------------
(* isAllowedImageHost on its own: the URLs are every concatenation of a    *)
(* scheme, a userinfo, a host prefix, a host, a host suffix and a rest.    *)

SchemeHttps == <<"h", "t", "t", "p", "s", ":", "/", "/">>
SchemeHttp == <<"h", "t", "t", "p", ":", "/", "/">>
SchemeFile == <<"f", "i", "l", "e", ":", "/", "/">>
SchemeRelative == <<"/", "/">>
SchemeOpaque == <<"h", "t", "t", "p", "s", ":">>
UserFiles == <<"f", "i", "l", "e", "s", ".", "s", "l", "a", "c", "k", ".", "c", "o", "m", "@">>
SubA == <<"a", ".">>
SubX == <<"x">>
SubEvil == <<"e", "v", "i", "l", ".", "c", "o", "m", ".">>
HostEvilCom == <<"e", "v", "i", "l", ".", "c", "o", "m">>
HostLocalhost == <<"l", "o", "c", "a", "l", "h", "o", "s", "t">>
HostMetadata == <<"1", "6", "9", ".", "2", "5", "4", ".", "1", "6", "9", ".", "2", "5", "4">>
TrailEvil == <<".", "e", "v", "i", "l", ".", "c", "o", "m">>
TrailPort == <<":", "4", "4", "3">>
TrailBadPort == <<":", "x">>
TrailDot == <<".">>
RestFake == <<"/", "f", "i", "l", "e", "s", ".", "s", "l", "a", "c", "k", ".", "c", "o", "m", "/", "f", "a", "k", "e">>
RestPng == <<"/", "i", "m", "g", ".", "p", "n", "g">>
RestQuery == <<"?", "h", "=", "f", "i", "l", "e", "s", ".", "s", "l", "a", "c", "k", ".", "c", "o", "m">>
RestFragment == <<"#", "@", "f", "i", "l", "e", "s", ".", "s", "l", "a", "c", "k", ".", "c", "o", "m">>

HostURLs ==
    { scheme \o user \o sub \o host \o trail \o rest :
        scheme \in {<<>>, SchemeHttps, SchemeHttp, SchemeFile, SchemeRelative, SchemeOpaque},
        user \in {<<>>, UserFiles},
        sub \in {<<>>, SubA, SubX, SubEvil},
        host \in {<<>>, HostFilesSlackCom, HostSlackEdgeCom, HostAvatarsSlackEdgeCom,
                  HostEvilCom, HostLocalhost, HostMetadata},
        trail \in {<<>>, TrailEvil, TrailPort, TrailBadPort, TrailDot},
        rest \in {<<>>, RestFake, RestPng, RestQuery, RestFragment} }

InitHost ==
    /\ \E u \in HostURLs : call = [fn |-> "isAllowedImageHost", rawURL |-> u]
    /\ ret = FALSE
    /\ returned = FALSE
    /\ PipeIdle
    /\ PoolIdle

\* isAllowedImageHost(rawURL) returns
ReturnIsAllowedImageHost ==
    /\ call.fn = "isAllowedImageHost"
    /\ ~returned
    /\ ret' = isAllowedImageHost(call.rawURL)
    /\ returned' = TRUE
    /\ UNCHANGED <<call, pipeVars, poolVars>>

NextHost == ReturnIsAllowedImageHost

SpecHost == InitHost /\ [][NextHost]_vars

---------------------------------------------------------------------------
(* C2 *)

\* the labels of a host name: the text between its dots
RECURSIVE Labels(_)
Labels(s) ==
    IF Index(s, ".") = 0 THEN <<s>>
    ELSE <<SubSeq(s, 1, Index(s, ".") - 1)>> \o Labels(SubSeq(s, Index(s, ".") + 1, Len(s)))

\* host is an allowed entry or a subdomain of one, label by label
OnAllowedDomain(host) ==
    \E allowed \in allowedImageHosts :
        LET h == Labels(host)
            a == Labels(allowed)
        IN Len(h) >= Len(a) /\ SubSeq(h, Len(h) - Len(a) + 1, Len(h)) = a

UrlEvilPath == SchemeHttps \o HostEvilCom \o RestFake
UrlEvilSuffix == SchemeHttps \o HostFilesSlackCom \o TrailEvil \o RestPng

\* C2: isAllowedImageHost returns true exactly when the URL parses and its
\* hostname is an entry of the allowed-host set or a dot-separated subdomain
\* of one; an empty hostname, files.slack.com.evil.com and
\* evil.com/files.slack.com/fake are rejected.
C2_HostAllowedIff ==
    (call.fn = "isAllowedImageHost" /\ returned) =>
        LET parsed == urlParse(call.rawURL)
        IN /\ ret <=> (~parsed.err /\ OnAllowedDomain(Hostname(parsed)))
           /\ (parsed.err \/ Hostname(parsed) = <<>>) => ~ret
           /\ call.rawURL \in {UrlEvilPath, UrlEvilSuffix} => ~ret

\* a proper subdomain of an allowed host, with a port, was accepted
C2_Witness ==
    /\ call.fn = "isAllowedImageHost"
    /\ returned
    /\ ret
    /\ Hostname(urlParse(call.rawURL)) = SubA \o HostSlackEdgeCom
    /\ urlParse(call.rawURL).Host # Hostname(urlParse(call.rawURL))

---------------------------------------------------------------------------
(* C1, C3 - C8: DownloadImagesWithBudget *)

InBudgetLoop == mode = "budget" /\ pc \in {"loop", "fetching"}
BudgetReturned == mode = "budget" /\ pc \in {"returned", "done"}

\* C1: every URL handed to GetFileContext has a hostname the host allowlist
\* accepts, whichever extractor produced the reference and whichever
\* downloader fetched it.
C1_FetchedHostsAllowed == \A u \in DOMAIN fetched : isAllowedImageHost(u)

RECURSIVE SumSizes(_, _)
SumSizes(data, keys) ==
    IF keys = {} THEN 0
    ELSE LET k == CHOOSE x \in keys : TRUE
         IN Size(data[k]) + SumSizes(data, keys \ {k})

\* C3: in DownloadImagesWithBudget the byte lengths of the included images
\* never add up to more than the budget; the exception the claim allows for a
\* last-resort lowest-quality result is never needed, because such a result
\* that overshoots is skipped like any other.
C3_IncludedWithinBudget ==
    (mode = "budget" /\ imageData # NoMap) =>
        SumSizes(imageData, DOMAIN imageData) <= budget

\* the compressor handed back its lowest-quality result although it was
\* larger than the remaining budget, after another image had been included
C3_Witness ==
    /\ BudgetReturned
    /\ imageData # NoMap
    /\ \E i \in 1..Len(outcome) :
           /\ outcome[i] = "skipped-budget"
           /\ imageKey(images[i]) \in DOMAIN mimeTypeOverrides
           /\ imageKey(images[i]) \notin DOMAIN imageData

\* C4: during one DownloadImagesWithBudget invocation cumulativeSize never
\* decreases and budgetExceeded, once true, stays true.
C4_BudgetStateForward ==
    [][InBudgetLoop =>
          /\ cumulativeSize' >= cumulativeSize
          /\ budgetExceeded => budgetExceeded']_vars

\* the total grew, then the flag was set and survived another reference
C4_Witness ==
    /\ BudgetReturned
    /\ outcome = <<"included", "skipped-budget", "skipped-budget">>
    /\ budgetExceeded
    /\ cumulativeSize = 1000

\* C5: once budgetExceeded is set, GetFileContext is not called again and
\* every later reference is appended to the skipped list, whatever its size,
\* without a warning.
C5_ExceededSkipsRest ==
    [][(InBudgetLoop /\ budgetExceeded) =>
          /\ fetched' = fetched
          /\ pc = "loop"
          /\ next <= Len(images) =>
                 /\ skippedImages' = Append(skippedImages, images[next])
                 /\ warnings' = warnings
                 /\ imageData' = imageData
                 /\ next' = next + 1]_vars

\* after the flag was set, a reference whose declared size would have fitted
\* the remaining budget, and one declared too large, were skipped
C5_Witness ==
    /\ BudgetReturned
    /\ Len(outcome) = 3
    /\ outcome[2] = "skipped-budget"
    /\ outcome[3] = "skipped-budget"
    /\ \/ images[3].Size <= budget - cumulativeSize
       \/ images[3].Size > MaxImageSize
    /\ images[3] = skippedImages[Len(skippedImages)]

CountOutcome(labels) ==
    Cardinality({i \in 1..Len(outcome) : outcome[i] \in labels})

RECURSIVE BudgetSkipped(_)
BudgetSkipped(i) ==
    IF i > Len(outcome) THEN <<>>
    ELSE (IF outcome[i] = "skipped-budget" THEN <<images[i]>> ELSE <<>>)
         \o BudgetSkipped(i + 1)

\* C6: when DownloadImagesWithBudget returns, every reference of the list has
\* exactly one outcome: included with an entry in the image map, skipped as
\* too large or failed with one warning each, or skipped for the budget with
\* an entry in the skipped list.
C6_EveryRefFinalized ==
    BudgetReturned =>
        /\ Len(outcome) = Len(images)
        /\ \A i \in 1..Len(outcome) :
               /\ outcome[i] = "included" =>
                      imageKey(images[i]) \in DOMAIN imageData
               /\ outcome[i] = "skipped-too-large" => images[i].Size > MaxImageSize
        /\ Len(warnings) = CountOutcome({"skipped-too-large", "skipped-error"})
        /\ skippedImages = BudgetSkipped(1)
        /\ CountOutcome({"included"}) = 0 <=> imageData = NoMap

\* three references ended in three different outcomes
C6_Witness ==
    /\ BudgetReturned
    /\ Len(outcome) = 3
    /\ Cardinality({outcome[i] : i \in 1..3}) = 3
    /\ "skipped-budget" \in {outcome[i] : i \in 1..3}

---------------------------------------------------------------------------
(* C7: warnings in both modes *)

Returned == pc \in {"returned", "done"}

\* the reference at position i of the processed list was included
Included(i) ==
    IF mode = "budget" THEN outcome[i] = "included"
    ELSE imageKey(images[i]) \in DOMAIN imageData

NotIncluded == Cardinality({i \in 1..Len(images) : ~Included(i)})

\* C7 as stated: the number of warnings equals the number of references that
\* were not included, in budget mode and in pool mode.
C7_WarningPerOmitted == Returned => Len(warnings) = NotIncluded

\* C7: the number of warnings equals the number of references skipped as too
\* large or failed in fetch or validation; a reference skipped for the budget
\* is in the skipped list and has no warning, so warnings and skipped list
\* together account for the references that were not included.
C7_WarningPerFailure ==
    Returned =>
        /\ Len(warnings) + Len(skippedImages) = NotIncluded
        /\ mode = "pool" => skippedImages = <<>>
        /\ mode = "budget" =>
               Len(skippedImages) = CountOutcome({"skipped-budget"})

\* budget mode returned with both a warning and a reference skipped for the
\* budget
C7_Witness ==
    /\ Returned
    /\ mode = "budget"
    /\ Len(warnings) = 1
    /\ Len(skippedImages) = 1
    /\ NotIncluded = 2

---------------------------------------------------------------------------
(* C8 *)

\* C8: a reference declared larger than MaxImageSize, or whose download or
\* validation fails, adds one warning, leaves cumulativeSize and
\* budgetExceeded as they are, and the loop goes on to the next reference.
C8_FailureOnlyWarns ==
    [][(/\ InBudgetLoop
        /\ \/ /\ pc = "loop"
              /\ next <= Len(images)
              /\ ~budgetExceeded
              /\ images[next].Size > MaxImageSize
           \/ /\ pc = "fetching"
              /\ DownloadImage(inflight[next]).err # "nil") =>
          /\ Len(warnings') = Len(warnings) + 1
          /\ cumulativeSize' = cumulativeSize
          /\ budgetExceeded' = budgetExceeded
          /\ skippedImages' = skippedImages
          /\ next' = next + 1
          /\ pc' = "loop"]_vars

\* a reference declared too large and one that failed were each followed by
\* a fetch, and the last reference was included
C8_Witness ==
    /\ BudgetReturned
    /\ outcome = <<"skipped-too-large", "skipped-error", "included">>
    /\ Len(warnings) = 2

---------------------------------------------------------------------------
(* C9, C10: DownloadImagesWithConcurrencyLimit *)

\* the goroutines between acquiring and releasing a slot
Holding == {w \in DOMAIN worker : worker[w] \in {"holding", "fetching", "release"}}

\* C9: in every reachable state of DownloadImagesWithConcurrencyLimit at most
\* MaxConcurrentDownloads goroutines are between acquiring and releasing a
\* slot, and so at most that many GetFileContext calls are in flight.
C9_InFlightWithinCap ==
    /\ Cardinality(Holding) <= MaxConcurrentDownloads
    /\ Cardinality(DOMAIN inflight) <= MaxConcurrentDownloads

\* three downloads hold all slots while a fourth goroutine waits for one
C9_Witness ==
    /\ mode = "pool"
    /\ Cardinality(DOMAIN inflight) = MaxConcurrentDownloads
    /\ \E w \in DOMAIN worker : worker[w] = "acquire"

\* a goroutine about to send its result finds the channel open and not full
SendsNeverBlock ==
    \A w \in DOMAIN worker :
        worker[w] \in {"holding", "fetching"} =>
            ~chanClosed /\ Len(resultChan) < Len(images)

\* the slots taken are exactly those of the goroutines that have acquired
\* and not yet released
SlotsMatchHolders == mode = "pool" => semaphore = Cardinality(Holding)

\* at return every goroutine is finished, every slot is free, the channel is
\* closed and drained and one result per reference was collected
CleanAtReturn ==
    (mode = "pool" /\ Returned) =>
        /\ semaphore = 0
        /\ wg = 0
        /\ \A w \in DOMAIN worker : worker[w] = "done"
        /\ DOMAIN worker = 1..Len(images)
        /\ resultChan = <<>>
        /\ images # <<>> => chanClosed
        /\ inflight = NoMap
        /\ Cardinality(DOMAIN imageData) + Len(warnings) = Len(images)

\* C10: when every fetch returns, DownloadImagesWithConcurrencyLimit returns:
\* no goroutine is ever blocked on sending its result, each slot taken is
\* released on every path, and at return all slots are free, all goroutines
\* are finished and the collecting loop has ended.
C10_PoolTerminatesClean ==
    /\ <>(pc = "done")
    /\ [](SendsNeverBlock /\ SlotsMatchHolders /\ CleanAtReturn)

\* four references were processed with a successful download, a failed one
\* and a declared-size skip, and the call returned
C10_Witness ==
    /\ mode = "pool"
    /\ pc = "done"
    /\ Len(images) = PoolRefs
    /\ imageData # NoMap
    /\ \E i, j \in 1..Len(warnings) :
           warnings[i].kind = "declared" /\ warnings[j].kind = "download"

---------------------------------------------------------------------------
(* C11: lists longer than MaxImagesPerCall.  The first Settled references  *)
(* and the one after next are declared too large, the others are small.    *)
(* Budget mode runs from the start.  Ten goroutines have too many          *)
(* interleavings to enumerate, so pool mode starts where the goroutines of *)
(* the first Settled references have run to completion one after the other *)
(* as they were started: their results wait in resultChan and the starting *)
(* loop is about to start the next goroutine.                              *)

Settled == MaxImagesPerCall - MaxConcurrentDownloads

IdT(i) == <<"T", <<"a", "b", "c", "d", "e", "f", "g", "h", "i", "j", "k", "l", "m",
                   "n", "o", "p">>[i]>>
UrlT(i) == SubSeq(UrlA, 1, 24) \o IdT(i) \o <<".", "p", "n", "g">>
TruncFile(i) ==
    File(IdT(i), NameA, MimePNG,
         IF i <= Settled \/ i = Settled + 2 THEN MaxImageSize + 1 ELSE 1000,
         UrlT(i), <<>>)
TruncMessages ==
    {[Timestamp |-> TS, Files |-> [i \in 1..n |-> TruncFile(i)], Attachments |-> <<>>] :
        n \in MaxImagesPerCall..(MaxImagesPerCall + 2)}

InitTruncateBudget ==
    /\ PureIdle
    /\ PoolIdle
    /\ mode = "budget"
    /\ pc = "start"
    /\ ctx = "active"
    /\ slackClient = SlackAPI
    /\ msg \in TruncMessages
    /\ budget \in Budgets
    /\ refs = <<>>
    /\ images = <<>>
    /\ next = 1
    /\ inflight = NoMap
    /\ fetched = NoMap
    /\ imageData = NoMap
    /\ mimeTypeOverrides = NoMap
    /\ skippedImages = <<>>
    /\ warnings = <<>>
    /\ cumulativeSize = 0
    /\ budgetExceeded = FALSE
    /\ outcome = <<>>
    /\ content = <<>>

InitTruncatePool ==
    /\ PureIdle
    /\ mode = "pool"
    /\ pc = "spawn"
    /\ ctx = "active"
    /\ slackClient = SlackAPI
    /\ msg \in TruncMessages
    /\ budget = 0
    /\ refs = ExtractImagesFromMessage(msg)
    /\ images = truncate(refs)
    /\ next = Settled + 1
    /\ inflight = NoMap
    /\ fetched = NoMap
    /\ imageData = NoMap
    /\ mimeTypeOverrides = NoMap
    /\ skippedImages = <<>>
    /\ warnings = <<>>
    /\ cumulativeSize = 0
    /\ budgetExceeded = FALSE
    /\ outcome = <<>>
    /\ content = <<>>
    /\ semaphore = 0
    /\ resultChan = [w \in 1..Settled |->
                        [FileID |-> imageKey(images[w]), Data |-> NoData,
                         Error |-> declaredSizeWarning(images[w])]]
    /\ chanClosed = FALSE
    /\ wg = 0
    /\ worker = [w \in 1..Len(images) |-> IF w <= Settled THEN "done" ELSE "idle"]

InitTruncate == InitTruncateBudget \/ InitTruncatePool

NextTruncate ==
    \/ ExtractFromMessage
    \/ CallDownloadImagesWithBudget
    \/ BudgetSkipExceeded
    \/ BudgetSkipTooLarge
    \/ BudgetStartFetch
    \/ BudgetFetchFailed
    \/ BudgetOverBudget
    \/ BudgetInclude
    \/ BudgetReturn
    \/ Spawn
    \/ StartCollecting
    \/ \E w \in DOMAIN worker : WorkerAcquire(w)
    \/ \E w \in DOMAIN worker : WorkerSkipTooLarge(w)
    \/ \E w \in DOMAIN worker : WorkerStartFetch(w)
    \/ \E w \in DOMAIN worker : WorkerFetchReturn(w)
    \/ \E w \in DOMAIN worker : WorkerRelease(w)
    \/ \E w \in DOMAIN worker : WorkerDone(w)
    \/ CloserClose
    \/ Collect
    \/ PoolReturn
    \/ Package

SpecTruncate == InitTruncate /\ [][NextTruncate]_vars

\* C11: of a list longer than MaxImagesPerCall only the first MaxImagesPerCall
\* references, in input order, are processed: GetFileContext is never called
\* for a later reference, no goroutine is started for it, and it never gets an
\* entry in the image map, in budget mode and in pool mode.
C11_OnlyFirstTen ==
    /\ pc \notin {"start", "extracted"} =>
           images = SubSeq(refs, 1, Min(Len(refs), MaxImagesPerCall))
    /\ \A i \in (MaxImagesPerCall + 1)..Len(refs) :
           /\ refs[i].URL \notin DOMAIN fetched
           /\ imageKey(refs[i]) \notin DOMAIN imageData
    /\ DOMAIN worker \subseteq 1..MaxImagesPerCall
    /\ DOMAIN inflight \subseteq 1..MaxImagesPerCall
    /\ Len(outcome) <= MaxImagesPerCall
    /\ Len(warnings) + Len(skippedImages) <= MaxImagesPerCall

\* pool mode returned for twelve references: the tenth was downloaded and
\* included, the eleventh was a small file too
C11_Witness ==
    /\ mode = "pool"
    /\ pc = "done"
    /\ Len(refs) = MaxImagesPerCall + 2
    /\ refs[MaxImagesPerCall].URL \in DOMAIN fetched
    /\ imageKey(refs[MaxImagesPerCall]) \in DOMAIN imageData
    /\ refs[MaxImagesPerCall + 1].Size <= MaxImageSize

---------------------------------------------------------------------------
(* C12, C13: which references DownloadImagesWithBudget includes *)

\* no reference is declared too large and no download failed
AllFetchesSucceed ==
    /\ \A i \in 1..Len(images) : images[i].Size <= MaxImageSize
    /\ \A i \in 1..Len(outcome) : outcome[i] # "skipped-error"

\* the size the downloaded image has after CompressImageIfNeeded
SizeAfterCompression ==
    Size(CompressImageIfNeeded(DownloadImage(inflight[next]).data,
                               images[next].MimeType, budget - cumulativeSize).Data)

\* the included references are those before position k; the one at k and all
\* later ones are the skipped list
SplitAt(k) ==
    /\ \A i \in 1..(k - 1) :
           outcome[i] = "included" /\ imageKey(images[i]) \in DOMAIN imageData
    /\ \A i \in k..Len(images) : outcome[i] = "skipped-budget"
    /\ skippedImages = SubSeq(images, k, Len(images))

\* C12: when all fetches succeed, a downloaded reference is included exactly
\* when its size after compression keeps the running total within the budget;
\* the first one that does not fit and every later reference make up the
\* skipped list in input order, everything before is included, and there are
\* no warnings.
C12_IncludedUntilFirstOverflow ==
    /\ [][(mode = "budget" /\ pc = "fetching"
           /\ DownloadImage(inflight[next]).err = "nil") =>
             IF cumulativeSize + SizeAfterCompression > budget
             THEN /\ budgetExceeded'
                  /\ skippedImages' = Append(skippedImages, images[next])
                  /\ imageData' = imageData
                  /\ cumulativeSize' = cumulativeSize
                  /\ warnings' = warnings
             ELSE /\ ~budgetExceeded'
                  /\ imageKey(images[next]) \in DOMAIN imageData'
                  /\ cumulativeSize' = cumulativeSize + SizeAfterCompression
                  /\ skippedImages' = skippedImages
                  /\ warnings' = warnings]_vars
    /\ []((BudgetReturned /\ AllFetchesSucceed) =>
             /\ warnings = <<>>
             /\ \E k \in 1..(Len(images) + 1) : SplitAt(k))

\* three 1000-byte images with budget 1500: one included, two skipped, no
\* warning
C12_Witness ==
    /\ BudgetReturned
    /\ budget = 1500
    /\ Len(images) = 3
    /\ AllFetchesSucceed
    /\ cumulativeSize = 1000
    /\ Cardinality(DOMAIN imageData) = 1
    /\ Len(skippedImages) = 2
    /\ warnings = <<>>

\* two references were processed, the first declared above MaxImageSize, the
\* second not
FirstAboveCeiling ==
    /\ BudgetReturned
    /\ Len(images) = 2
    /\ images[1].Size > MaxImageSize
    /\ images[2].Size <= MaxImageSize

\* C13 as stated: when the first reference's declared size exceeds the
\* per-image ceiling and the second is small, both are skipped: no inclusion
\* and two entries in the skipped list.
C13_CeilingSkipsBoth ==
    FirstAboveCeiling => (imageData = NoMap /\ Len(skippedImages) = 2)

\* C13: a first reference declared above the per-image ceiling is skipped
\* with one warning and does not set the flag; the second reference is
\* fetched and is included when its download succeeds and fits the budget.
\* Both references end in the skipped list, with no inclusion and no warning,
\* when the first one's downloaded size exceeds the budget.
C13_CeilingOnlyWarns ==
    /\ FirstAboveCeiling =>
           /\ outcome[1] = "skipped-too-large"
           /\ warnings # <<>>
           /\ warnings[1] = declaredSizeWarning(images[1])
           /\ images[1] \notin Range(skippedImages)
           /\ images[2].URL \in DOMAIN fetched
           /\ outcome[2] = "included" <=> imageData # NoMap
           /\ outcome[2] = "skipped-budget" <=> skippedImages = <<images[2]>>
    /\ (BudgetReturned /\ Len(images) = 2 /\ outcome[1] = "skipped-budget") =>
           /\ imageData = NoMap
           /\ skippedImages = images
           /\ warnings = <<>>

\* the first reference was declared too large and the second one included
C13_Witness ==
    /\ FirstAboveCeiling
    /\ outcome = <<"skipped-too-large", "included">>
    /\ Len(warnings) = 1
    /\ skippedImages = <<>>
    /\ images[2].Size = 500

---------------------------------------------------------------------------
(* CompressImageIfNeeded on its own: C14 - C17 *)

JPEGSizes == {300, 600, 900}
Ladder == {DefaultJPEGQuality, DefaultJPEGQuality - JPEGQualityStep, MinJPEGQuality}

\* what png.Decode and jpeg.Encode make of the bytes: not a PNG, a PNG the
\* encoder refuses, or a PNG with some JPEG size for each quality
Pics ==
    {NoPic, [dec |-> TRUE, enc |-> FALSE, jpeg |-> [q \in {} |-> 0]]}
    \cup {[dec |-> TRUE, enc |-> TRUE, jpeg |-> f] : f \in [Ladder -> JPEGSizes]}

\* 700 bytes that start as a PNG, 700 bytes that start as a JPEG
CompressInputs ==
    {[head |-> PNGSignature, pad |-> 692, tail |-> <<>>, pic |-> p] : p \in Pics}
    \cup {[head |-> <<255, 216, 255, 224>>, pad |-> 694, tail |-> <<255, 217>>,
           pic |-> NoPic]}

MimeUpperPNG == <<"I", "M", "A", "G", "E", "/", "P", "N", "G">>
CompressMimeTypes == {MimePNG, MimeJPEG, MimeGIF, MimeWebP, MimeUpperPNG}
CompressBudgets == {-1, 1, 299, 300, 600, 700, 899, 900}

InitCompress ==
    /\ call \in {[fn |-> "CompressImageIfNeeded", data |-> d, mimeType |-> m, budget |-> b] :
                    d \in CompressInputs, m \in CompressMimeTypes, b \in CompressBudgets}
    /\ ret = FALSE
    /\ returned = FALSE
    /\ PipeIdle
    /\ PoolIdle

ReturnCompressImageIfNeeded ==
    /\ call.fn = "CompressImageIfNeeded"
    /\ ~returned
    /\ ret' = CompressImageIfNeeded(call.data, call.mimeType, call.budget)
    /\ returned' = TRUE
    /\ UNCHANGED <<call, pipeVars, poolVars>>

NextCompress == ReturnCompressImageIfNeeded

SpecCompress == InitCompress /\ [][NextCompress]_vars

Compressed == call.fn = "CompressImageIfNeeded" /\ returned

\* the bytes decode as a PNG and the JPEG encoder accepts the picture
Transcodable == call.data.pic.dec /\ call.data.pic.enc

\* C14 as stated: for every input declared image/png and every budget the
\* result has MimeType image/jpeg and WasConverted = true.
C14_PNGAlwaysConverted ==
    (Compressed /\ call.mimeType = MimePNG) =>
        (ret.MimeType = MimeJPEG /\ ret.WasConverted)

\* C14: for every input declared image/png whose bytes decode as a PNG that
\* the JPEG encoder accepts, and for every budget, also one the input already
\* fits, the result is a JPEG with MimeType image/jpeg and WasConverted =
\* true.
C14_DecodablePNGConverted ==
    (Compressed /\ call.mimeType = MimePNG /\ Transcodable) =>
        /\ ret.MimeType = MimeJPEG
        /\ ret.WasConverted
        /\ SubSeq(ret.Data.head, 1, 3) = <<255, 216, 255>>
        /\ ret.FinalSize = Size(ret.Data)
        /\ ret.OriginalSize = Size(call.data)

\* a PNG that already fitted the budget came back as a larger JPEG
C14_Witness ==
    /\ Compressed
    /\ call.mimeType = MimePNG
    /\ Transcodable
    /\ Size(call.data) <= call.budget
    /\ ret.WasConverted
    /\ ret.FinalSize > Size(call.data)

\* C15: for every input whose declared MIME type is not image/png and every
\* budget the result is the input: same bytes, same MIME type, WasConverted =
\* false, FinalSize = OriginalSize = length of the input.
C15_OtherTypesUnchanged ==
    (Compressed /\ call.mimeType # MimePNG) =>
        /\ ret.Data = call.data
        /\ ret.MimeType = call.mimeType
        /\ ~ret.WasConverted
        /\ ret.FinalSize = Size(call.data)
        /\ ret.OriginalSize = Size(call.data)

\* bytes that are a decodable PNG, declared image/gif, with a budget of one
\* byte
C15_Witness ==
    /\ Compressed
    /\ call.mimeType = MimeGIF
    /\ Transcodable
    /\ call.budget = 1
    /\ ret.Data = call.data

\* the qualities whose output fits the budget
Fitting == {q \in {80, 60, 40} : call.data.pic.jpeg[q] <= call.budget}

\* C16: when encoding succeeds, the result is the output of the highest of
\* the qualities 80, 60, 40 whose size is at most the budget, and the output
\* of quality 40 when none fits.
C16_HighestFittingQuality ==
    (Compressed /\ call.mimeType = MimePNG /\ Transcodable) =>
        LET chosen == IF Fitting = {} THEN 40
                      ELSE CHOOSE q \in Fitting : \A r \in Fitting : r <= q
        IN /\ ret.Data = JPEGBytes(call.data.pic.jpeg[chosen])
           /\ ret.FinalSize = call.data.pic.jpeg[chosen]

\* quality 80 did not fit, 60 and 40 did with different sizes, and the
\* output of 60 was returned
C16_Witness ==
    /\ Compressed
    /\ call.mimeType = MimePNG
    /\ Transcodable
    /\ Fitting = {60, 40}
    /\ call.data.pic.jpeg[60] > call.data.pic.jpeg[40]
    /\ ret.FinalSize = call.data.pic.jpeg[60]

\* C17: the error returned is nil on every input, and when decoding or
\* encoding fails at every quality the result is the original bytes with the
\* original MIME type and WasConverted = false.
C17_FailureNotSurfaced ==
    Compressed =>
        /\ ret.Err = "nil"
        /\ (call.mimeType = MimePNG /\ ~Transcodable) =>
               /\ ret.Data = call.data
               /\ ret.MimeType = MimePNG
               /\ ~ret.WasConverted
               /\ ret.FinalSize = ret.OriginalSize

\* a PNG that decodes but that the encoder refuses came back unchanged
C17_Witness ==
    /\ Compressed
    /\ call.mimeType = MimePNG
    /\ call.data.pic.dec
    /\ ~call.data.pic.enc
    /\ ret.Data = call.data
    /\ ret.Err = "nil"

---------------------------------------------------------------------------
(* DownloadImage on its own: C18, C19 *)

\* how a response body may begin: nothing, image signatures whole and cut
\* short, junk, and HTML in either case
SniffHeads ==
    { <<>>,
      <<255, 216, 255>>, <<255, 216, 255, 224>>,
      <<71, 73, 70>>, <<71, 73, 70, 56, 57, 97>>,
      <<137, 80, 78, 71>>, PNGSignature,
      <<82, 73, 70, 70>>,
      <<82, 73, 70, 70, 0, 0, 0, 0, 87, 69, 66, 80>>,
      <<1, 2, 3>>,
      <<60, 104, 116, 109, 108>>,                                      \* <html
      <<60, 72, 84, 77, 76, 62>>,                                      \* <HTML>
      <<60, 33, 68, 79, 67, 84, 89, 80, 69>>,                          \* <!DOCTYPE
      <<60, 66, 111, 100, 121>>,                                       \* <Body
      <<60, 104, 101, 97, 100, 62>>,                                   \* <head>
      <<60, 104, 116, 109, 108, 62, 60, 47, 104, 116, 109, 108, 62>> } \* <html></html>

\* how it may end
SniffTails ==
    { <<>>,
      <<60, 47, 104, 116, 109, 108, 62>>,                              \* </html>
      <<60, 47, 66, 79, 68, 89, 62>>,                                  \* </BODY>
      <<60, 47, 98, 111, 100, 121, 62, 10>>,                           \* </body>\n
      <<60, 104, 116, 109, 108>> }                                     \* <html

\* the number of zero bytes in between
SniffPads == {0, 1, 2, 4, 5, 7, 10, 13, 14, 490, 495, 496, 500}

\* bodies at and over the per-image ceiling, images or not, and a failed
\* call that wrote part of an image before it failed
SniffLarge ==
    {[err |-> FALSE, data |-> [head |-> h, pad |-> n - Len(h), tail |-> <<>>,
                               pic |-> NoPic]] :
        h \in {PNGSignature, <<1, 2, 3>>, <<60, 104, 116, 109, 108>>},
        n \in {MaxImageSize, MaxImageSize + 1}}
    \cup {[err |-> TRUE, data |-> BlobFakePNG]}

SniffResponses ==
    {[err |-> FALSE, data |-> [head |-> h, pad |-> n, tail |-> t, pic |-> NoPic]] :
        h \in SniffHeads, n \in SniffPads, t \in SniffTails}
    \cup {[err |-> TRUE, data |-> NoData], [err |-> FALSE, data |-> BlobOversize]}
    \cup SniffLarge

InitSniff ==
    /\ call \in {[fn |-> "DownloadImage", resp |-> r] : r \in SniffResponses}
    /\ ret = FALSE
    /\ returned = FALSE
    /\ PipeIdle
    /\ PoolIdle

ReturnDownloadImage ==
    /\ call.fn = "DownloadImage"
    /\ ~returned
    /\ ret' = DownloadImage(call.resp)
    /\ returned' = TRUE
    /\ UNCHANGED <<call, pipeVars, poolVars>>

NextSniff == ReturnDownloadImage

SpecSniff == InitSniff /\ [][NextSniff]_vars

\* GetFileContext succeeded and DownloadImage returned
Sniffed == call.fn = "DownloadImage" /\ returned /\ ~call.resp.err

\* C18: a buffer shorter than 8 bytes is invalid whatever it starts with, and
\* DownloadImage returns an error and no data for it.
C18_ShortBufferInvalid ==
    (Sniffed /\ Size(call.resp.data) < 8) =>
        /\ ~isValidImageData(call.resp.data)
        /\ ret.err \in {"format", "auth"}
        /\ ret.data = NoData

\* the six bytes GIF89a, and the JPEG signature with three more bytes, were
\* rejected
C18_Witness ==
    /\ Sniffed
    /\ Size(call.resp.data) \in {6, 7}
    /\ call.resp.data.head \in {<<71, 73, 70, 56, 57, 97>>, <<255, 216, 255, 224>>}
    /\ ret.err = "format"

\* one of <!doctype, <html, <head, <body in the first 500 bytes, or </html>
\* or </body> in the last 20, letter case ignored
HTMLMarked(data) ==
    \/ \E marker \in { <<60, 33, 100, 111, 99, 116, 121, 112, 101>>,
                       <<60, 104, 116, 109, 108>>,
                       <<60, 104, 101, 97, 100>>,
                       <<60, 98, 111, 100, 121>> } :
           ContainsLower(data, 0, Min(500, Size(data)), marker)
    \/ \E marker \in { <<60, 47, 104, 116, 109, 108, 62>>,
                       <<60, 47, 98, 111, 100, 121, 62>> } :
           ContainsLower(data, Max(0, Size(data) - 20), Size(data), marker)

\* C19: when the fetched bytes fail magic-byte classification, DownloadImage
\* returns the authentication-failure error exactly when the bytes carry an
\* HTML marker in the first 500 or last 20 bytes, and the invalid-format
\* error otherwise.
C19_HTMLIsAuthFailure ==
    (Sniffed /\ Size(call.resp.data) <= MaxImageSize
     /\ ~isValidImageData(call.resp.data)) =>
        ret.err = IF HTMLMarked(call.resp.data) THEN "auth" ELSE "format"

---------------------------------------------------------------------------
(* ExtractImagesFromMessage on its own: C20 *)

MaxFiles == 3

IdF6 == <<"F", "6">>
IdF7 == <<"F", "7">>
IdF8 == <<"F", "8">>
\* both URLs set; no URL at all; a type spelled in capitals
FileBothURLs == File(IdF6, NameB, MimeGIF, 10, UrlA, UrlB)
FileNoURL == File(IdF7, NameA, MimePNG, 10, <<>>, <<>>)
FileUpperType == File(IdF8, NameA, MimeUpperPNG, 10, UrlA, <<>>)
ExtractFileSet == {FileA, FileB, FileDoc, FileBothURLs, FileNoURL, FileUpperType}

InitExtract ==
    /\ call \in {[fn |-> "ExtractImagesFromMessage",
                  msg |-> [Timestamp |-> TS, Files |-> fs, Attachments |-> <<>>]] :
                    fs \in SeqsUpTo(ExtractFileSet, MaxFiles)}
    /\ ret = FALSE
    /\ returned = FALSE
    /\ PipeIdle
    /\ PoolIdle

ReturnExtractImagesFromMessage ==
    /\ call.fn = "ExtractImagesFromMessage"
    /\ ~returned
    /\ ret' = ExtractImagesFromMessage(call.msg)
    /\ returned' = TRUE
    /\ UNCHANGED <<call, pipeVars, poolVars>>

NextExtract == ReturnExtractImagesFromMessage

SpecExtract == InitExtract /\ [][NextExtract]_vars

\* the positions of the files that are images of a supported type with a URL
Kept ==
    {i \in 1..Len(call.msg.Files) :
        /\ isImageMimeType(call.msg.Files[i].Mimetype)
        /\ \/ call.msg.Files[i].URLPrivate # <<>>
           \/ call.msg.Files[i].URLPrivateDownload # <<>>}

\* C20: ExtractImagesFromMessage returns one reference for each file of a
\* supported image type that has a private or private-download URL, in the
\* order of the files and also for a file that occurs twice; the reference
\* carries the file's id, name, type and size, the message timestamp, and the
\* private URL when there is one, else the private-download URL; other files
\* give no reference.
C20_OneRefPerImageFile ==
    (call.fn = "ExtractImagesFromMessage" /\ returned) =>
        /\ Len(ret) = Cardinality(Kept)
        /\ \A i \in Kept :
               LET file == call.msg.Files[i]
                   ref == ret[Cardinality({j \in Kept : j <= i})]
               IN /\ ref.FileID = file.ID
                  /\ ref.Name = file.Name
                  /\ ref.MimeType = file.Mimetype
                  /\ ref.Size = file.Size
                  /\ ref.MsgTS = call.msg.Timestamp
                  /\ ref.URL = IF file.URLPrivate # <<>> THEN file.URLPrivate
                               ELSE file.URLPrivateDownload

\* a file with both URLs twice, around a file without any URL: two equal
\* references with the private URL
C20_Witness ==
    /\ call.fn = "ExtractImagesFromMessage"
    /\ returned
    /\ call.msg.Files = <<FileBothURLs, FileNoURL, FileBothURLs>>
    /\ Len(ret) = 2
    /\ ret[1] = ret[2]
    /\ ret[1].URL = UrlA

---------------------------------------------------------------------------
(* ExtractImagesFromAttachments on its own: C21, C22 *)

MaxAttachments == 3

\* a blocked thumbnail URL, different from every full-size URL
UrlEvilThumb == SubSeq(UrlEvil, 1, 17) \o <<"t", ".", "p", "n", "g">>
FullURLs == {<<>>, UrlA, UrlB, UrlEvil}
ThumbURLs == {<<>>, UrlThumb, UrlEvilThumb}
AttachmentSet == [ImageURL : FullURLs, ThumbURL : ThumbURLs]

InitAttach ==
    /\ call \in {[fn |-> "ExtractImagesFromAttachments", attachments |-> as, msgTS |-> TS] :
                    as \in SeqsUpTo(AttachmentSet, MaxAttachments)}
    /\ ret = FALSE
    /\ returned = FALSE
    /\ PipeIdle
    /\ PoolIdle

ReturnExtractImagesFromAttachments ==
    /\ call.fn = "ExtractImagesFromAttachments"
    /\ ~returned
    /\ ret' = ExtractImagesFromAttachments(call.attachments, call.msgTS)
    /\ returned' = TRUE
    /\ UNCHANGED <<call, pipeVars, poolVars>>

NextAttach == ReturnExtractImagesFromAttachments

SpecAttach == InitAttach /\ [][NextAttach]_vars

Attached == call.fn = "ExtractImagesFromAttachments" /\ returned

\* the URLs of the inputs that are on a Slack host
SlackHosted == {UrlA, UrlB, UrlThumb}

\* how many references of the result carry the URL u
Yielded(u) == Cardinality({i \in DOMAIN ret : ret[i].URL = u})

\* the positions of the attachments with thumbnail u whose full-size URL is
\* one of full
ThumbOf(u, full) ==
    {i \in DOMAIN call.attachments :
        /\ call.attachments[i].ThumbURL = u
        /\ call.attachments[i].ImageURL \in full}

\* C21 as stated: a thumbnail is used only by an attachment without a
\* full-size URL, and an attachment whose full-size URL is present but on a
\* blocked host gives no reference at all.
C21_ThumbnailOnlyIfFullAbsent ==
    Attached =>
        /\ \A u \in ThumbURLs \ {<<>>} : Yielded(u) <= Cardinality(ThumbOf(u, {<<>>}))
        /\ Len(ret) <= Cardinality({i \in DOMAIN call.attachments :
                                      call.attachments[i].ImageURL # UrlEvil})

\* C21: a thumbnail is used only by an attachment whose full-size URL is
\* absent or on a blocked host, and every attachment whose full-size URL is
\* present but blocked and whose thumbnail is on a Slack host falls through
\* to the thumbnail and gives the thumbnail reference.
C21_ThumbnailIfFullUnusable ==
    Attached =>
        \A u \in ThumbURLs \ {<<>>} :
            /\ Yielded(u) <= Cardinality(ThumbOf(u, {<<>>, UrlEvil}))
            /\ u \in SlackHosted => Yielded(u) >= Cardinality(ThumbOf(u, {UrlEvil}))

\* a blocked full-size URL with a Slack thumbnail, next to an attachment with
\* both on Slack hosts: the thumbnail of the first and the full size of the
\* second
C21_Witness ==
    /\ Attached
    /\ call.attachments = <<[ImageURL |-> UrlEvil, ThumbURL |-> UrlThumb],
                            [ImageURL |-> UrlA, ThumbURL |-> UrlThumb]>>
    /\ Len(ret) = 2
    /\ ret[1].URL = UrlThumb
    /\ ret[2].URL = UrlA

\* the URL an attachment contributes: the full-size URL when it is non-empty
\* and on a Slack host, else the thumbnail URL when it is non-empty and on a
\* Slack host, else none
Chosen(attachment) ==
    IF attachment.ImageURL \in SlackHosted THEN <<attachment.ImageURL>>
    ELSE IF attachment.ThumbURL \in SlackHosted THEN <<attachment.ThumbURL>>
    ELSE <<>>

RECURSIVE ChosenURLs(_)
ChosenURLs(attachments) ==
    IF attachments = <<>> THEN <<>>
    ELSE Chosen(Head(attachments)) \o ChosenURLs(Tail(attachments))

\* C22: ExtractImagesFromAttachments gives at most one reference per
\* attachment, in the order of the attachments: the full-size URL when it is
\* non-empty and allowed, otherwise the thumbnail URL when it is non-empty and
\* allowed, otherwise nothing; every URL of the result is on an allowed host,
\* and the references have no identifier, size 0 and the message timestamp.
C22_OneRefPerAttachment ==
    Attached =>
        /\ [i \in DOMAIN ret |-> ret[i].URL] = ChosenURLs(call.attachments)
        /\ Len(ret) <= Len(call.attachments)
        /\ \A i \in DOMAIN ret :
               /\ isAllowedImageHost(ret[i].URL)
               /\ ret[i].URL \in SlackHosted
               /\ ret[i].FileID = <<>>
               /\ ret[i].Size = 0
               /\ ret[i].MsgTS = call.msgTS

\* three attachments: full size only, a blocked full size with a Slack
\* thumbnail, and a blocked thumbnail only
C22_Witness ==
    /\ Attached
    /\ call.attachments = <<[ImageURL |-> UrlB, ThumbURL |-> <<>>],
                            [ImageURL |-> UrlEvil, ThumbURL |-> UrlThumb],
                            [ImageURL |-> <<>>, ThumbURL |-> UrlEvilThumb]>>
    /\ Len(ret) = 2
    /\ ret[1].URL = UrlB
    /\ ret[2].URL = UrlThumb

---------------------------------------------------------------------------
(* isImageMimeType on its own: C23 *)

\* the pieces of a Content-Type value: white space, a media type, white
\* space, parameters from the first ";" on, white space
MimeLeads == {<<>>, <<" ">>, <<"\t", " ">>}
MimeBMP == <<"i", "m", "a", "g", "e", "/", "b", "m", "p">>
MimeTIFF == <<"i", "m", "a", "g", "e", "/", "t", "i", "f", "f">>
MimeSVG == <<"i", "m", "a", "g", "e", "/", "s", "v", "g", "+", "x", "m", "l">>
MimeMixedJPEG == <<"I", "m", "a", "g", "e", "/", "J", "p", "e", "g">>
MimeInnerBlank == <<"i", "m", "a", "g", "e", "/", " ", "p", "n", "g">>
MimeCutPNG == <<"i", "m", "a", "g", "e", "/", "p", "n">>
MimeLongPNG == <<"i", "m", "a", "g", "e", "/", "p", "n", "g", "x">>
\* the spellings of the four supported types among the media types
SupportedSpellings == {MimePNG, MimeJPEG, MimeGIF, MimeWebP, MimeUpperPNG, MimeMixedJPEG}
MimeBases ==
    SupportedSpellings \cup {<<>>, MimeBMP, MimeTIFF, MimeSVG, MimePDF,
                             MimeInnerBlank, MimeCutPNG, MimeLongPNG}
MimeGaps == {<<>>, <<" ", " ">>}
MimeParams == {<<>>, <<";", " ", "c", "h", "a", "r", "s", "e", "t", "=", "u", "t", "f", "-", "8">>, <<";">>, <<";", "i", "m", "a", "g", "e", "/", "p", "n", "g">>}
MimeTrails == {<<>>, <<" ">>}
MimeInputs == [lead : MimeLeads, base : MimeBases, gap : MimeGaps,
               params : MimeParams, trail : MimeTrails]
MimeText(in) == in.lead \o in.base \o in.gap \o in.params \o in.trail

InitMime ==
    /\ call \in {[fn |-> "isImageMimeType", mimeType |-> MimeText(in), in |-> in] :
                    in \in MimeInputs}
    /\ ret = FALSE
    /\ returned = FALSE
    /\ PipeIdle
    /\ PoolIdle

ReturnIsImageMimeType ==
    /\ call.fn = "isImageMimeType"
    /\ ~returned
    /\ ret' = isImageMimeType(call.mimeType)
    /\ returned' = TRUE
    /\ UNCHANGED <<call, pipeVars, poolVars>>

NextMime == ReturnIsImageMimeType

SpecMime == InitMime /\ [][NextMime]_vars

MimeChecked == call.fn = "isImageMimeType" /\ returned

\* C23: isImageMimeType is true exactly when what is left of the input after
\* trimming white space, dropping everything from the first ";" on, trimming
\* again and lower-casing is image/png, image/jpeg, image/gif or image/webp;
\* the empty string, white space alone, image/svg+xml, image/bmp and
\* image/tiff are rejected.
C23_SupportedAfterNormalising ==
    MimeChecked =>
        /\ ret = (call.in.base \in SupportedSpellings)
        /\ (call.in.base \in {<<>>, MimeSVG, MimeBMP, MimeTIFF}) => ret = FALSE

\* "\t IMAGE/PNG  ; charset=utf-8 " is accepted
C23_Witness ==
    /\ MimeChecked
    /\ call.in = [lead |-> <<"\t", " ">>, base |-> MimeUpperPNG, gap |-> <<" ", " ">>,
                  params |-> <<";", " ", "c", "h", "a", "r", "s", "e", "t", "=", "u", "t", "f", "-", "8">>, trail |-> <<" ">>]
    /\ ret = TRUE

---------------------------------------------------------------------------
(* Lookup keys and packaging: C24, C25, C26 *)

\* the extractor has run
Extracted == pc # "start"

\* C24: within one invocation no two of the references the extractors
\* produced, which the assembler or the pool then processes, have the same
\* lookup key (the identifier if there is one, else the URL).
C24_KeysUnique ==
    Extracted =>
        \A i, j \in DOMAIN refs : i # j => imageKey(refs[i]) # imageKey(refs[j])


\* both downloaders on messages whose references have no identifier: the
\* assembler on every message, the pool on short messages of files or of
\* attachments
PackRefs == 2
PackPoolMessages ==
    {m \in PoolMessages : Len(m.Files) <= PackRefs}
    \cup {[Timestamp |-> TS, Files |-> <<>>, Attachments |-> as] :
            as \in SeqsUpTo(Attachments, PackRefs)}

InitPackPool ==
    /\ PureIdle
    /\ PoolIdle
    /\ mode = "pool"
    /\ pc = "start"
    /\ ctx = "active"
    /\ slackClient = SlackAPI
    /\ msg \in PackPoolMessages
    /\ budget = 0
    /\ refs = <<>>
    /\ images = <<>>
    /\ next = 1
    /\ inflight = NoMap
    /\ fetched = NoMap
    /\ imageData = NoMap
    /\ mimeTypeOverrides = NoMap
    /\ skippedImages = <<>>
    /\ warnings = <<>>
    /\ cumulativeSize = 0
    /\ budgetExceeded = FALSE
    /\ outcome = <<>>
    /\ content = <<>>

InitPack == InitBudget \/ InitPackPool

SpecPack == InitPack /\ [][Next]_vars

Packaged == pc = "done"

\* the references without identifier
Anonymous(list) == {i \in DOMAIN list : list[i].FileID = <<>>}

\* the place in the content of the item for position i of the references
ItemOf(i) ==
    Cardinality({j \in 1..i :
        (IF refs[j].FileID = <<>> THEN refs[j].URL ELSE refs[j].FileID)
            \in DOMAIN imageData})

\* the assembler includes images[next]: what it stores is under the URL
AssemblerStoresUnderURL ==
    (/\ mode = "budget"
     /\ pc = "fetching"
     /\ outcome' = Append(outcome, "included")
     /\ next \in Anonymous(images)) =>
        /\ images[next].URL \in DOMAIN imageData'
        /\ imageData'[images[next].URL] =
               CompressImageIfNeeded(DownloadImage(inflight[next]).data,
                                     images[next].MimeType,
                                     budget - cumulativeSize).Data

\* a goroutine of the pool sends a successful result: it is keyed by the URL
GoroutineSendsUnderURL ==
    \A w \in Anonymous(images) :
        (/\ mode = "pool"
         /\ w \in DOMAIN worker
         /\ worker[w] = "fetching"
         /\ worker'[w] = "release"
         /\ DownloadImage(inflight[w]).err = "nil") =>
            /\ resultChan'[Len(resultChan')].FileID = images[w].URL
            /\ resultChan'[Len(resultChan')].Data = DownloadImage(inflight[w]).data

\* the collector takes a successful result: it stores the bytes under its key
CollectorStores ==
    (/\ mode = "pool"
     /\ pc = "collect"
     /\ resultChan # <<>>
     /\ resultChan' = Tail(resultChan)
     /\ Head(resultChan).Error.kind = "nil") =>
        /\ Head(resultChan).FileID \in DOMAIN imageData'
        /\ imageData'[Head(resultChan).FileID] = Head(resultChan).Data

\* the packager finds what is stored under a URL and emits its bytes
PackagerFindsURL ==
    Packaged =>
        \A i \in Anonymous(refs) :
            refs[i].URL \in DOMAIN imageData =>
                /\ ItemOf(i) \in DOMAIN content
                /\ content[ItemOf(i)].Data = EncodeToString(imageData[refs[i].URL])
                /\ content[ItemOf(i)].Data.base64 = imageData[refs[i].URL]

ItemFor(img, key) ==
    NewImageContent(EncodeToString(imageData[key]),
                    IF key \in DOMAIN mimeTypeOverrides THEN mimeTypeOverrides[key]
                    ELSE img.MimeType)

\* one item for each position from i on that the assembler included
RECURSIVE IncludedItems(_)
IncludedItems(i) ==
    IF i > Len(outcome) THEN <<>>
    ELSE (IF outcome[i] = "included"
          THEN <<ItemFor(images[i], IF images[i].FileID = <<>> THEN images[i].URL
                                    ELSE images[i].FileID)>>
          ELSE <<>>)
         \o IncludedItems(i + 1)

\* C26: ImagesToMCPContent emits, in the order of the references, exactly one
\* content item for each included reference and none for a skipped or failed
\* one; the item carries the recorded override of the type when there is one
\* and the reference's own type otherwise.  In pool mode every reference that
\* is not included has one warning.
C26_OneItemPerIncluded ==
    Packaged =>
        IF mode = "budget" THEN content = IncludedItems(1)
        ELSE Len(content) = Len(images) - Len(warnings)


---------------------------------------------------------------------------
(* No retries: C28 *)

\* the positions of the processed list whose URL is u
\* the downloaders and the packager from the references on: the extractor
\* has run
InitFetch ==
    /\ PureIdle
    /\ PoolIdle
    /\ \/ mode = "budget" /\ msg \in Messages /\ budget \in Budgets
       \/ mode = "pool" /\ msg \in PackPoolMessages /\ budget = 0
    /\ pc = "extracted"
    /\ ctx = "active"
    /\ slackClient = SlackAPI
    /\ refs = IF msg.Attachments = <<>> THEN ExtractImagesFromMessage(msg)
              ELSE ExtractImagesFromAttachments(msg.Attachments, msg.Timestamp)
    /\ images = <<>>
    /\ next = 1
    /\ inflight = NoMap
    /\ fetched = NoMap
    /\ imageData = NoMap
    /\ mimeTypeOverrides = NoMap
    /\ skippedImages = <<>>
    /\ warnings = <<>>
    /\ cumulativeSize = 0
    /\ budgetExceeded = FALSE
    /\ outcome = <<>>
    /\ content = <<>>

NextFetch ==
    \/ CallDownloadImagesWithBudget
    \/ BudgetSkipExceeded
    \/ BudgetSkipTooLarge
    \/ BudgetStartFetch
    \/ BudgetFetchFailed
    \/ BudgetOverBudget
    \/ BudgetInclude
    \/ BudgetReturn
    \/ CallDownloadImagesWithConcurrencyLimit
    \/ Spawn
    \/ StartCollecting
    \/ \E w \in DOMAIN worker : WorkerAcquire(w)
    \/ \E w \in DOMAIN worker : WorkerSkipTooLarge(w)
    \/ \E w \in DOMAIN worker : WorkerStartFetch(w)
    \/ \E w \in DOMAIN worker : WorkerFetchReturn(w)
    \/ \E w \in DOMAIN worker : WorkerRelease(w)
    \/ \E w \in DOMAIN worker : WorkerDone(w)
    \/ CloserClose
    \/ Collect
    \/ PoolReturn
    \/ Package

SpecFetch == InitFetch /\ [][NextFetch]_vars

\* with the Go scheduler: the loop goes on, a goroutine that can run
\* eventually runs, and every GetFileContext call returns
LiveSpecFetch == SpecFetch /\ WF_vars(NextFetch)
PositionsOf(u) == {i \in DOMAIN images : images[i].URL = u}

\* GetFileContext was called at most once for each reference
CalledOncePerRef ==
    /\ \A u \in DOMAIN fetched : fetched[u] <= Cardinality(PositionsOf(u))
    /\ mode = "budget" =>
           Cardinality({i \in DOMAIN outcome : outcome[i] = "skipped-error"})
               <= Len(warnings)

\* the assembler's fetch failed: one more warning, on to the next reference,
\* no further call and nothing else changed
AssemblerFailureIsFinal ==
    (/\ mode = "budget"
     /\ pc = "fetching"
     /\ DownloadImage(inflight[next]).err # "nil") =>
        /\ pc' = "loop"
        /\ next' = next + 1
        /\ Len(warnings') = Len(warnings) + 1
        /\ fetched' = fetched
        /\ imageData' = imageData
        /\ skippedImages' = skippedImages
        /\ budgetExceeded' = budgetExceeded

\* a goroutine whose fetch has returned never fetches again
GoroutineFetchesOnce ==
    \A w \in DOMAIN worker :
        worker[w] \in {"release", "wgdone", "done"} =>
            /\ w \in DOMAIN worker'
            /\ worker'[w] \in {"release", "wgdone", "done"}

\* the collector takes a failed result: one more warning, no image
CollectorFailureWarns ==
    (/\ mode = "pool"
     /\ pc = "collect"
     /\ resultChan # <<>>
     /\ resultChan' = Tail(resultChan)
     /\ Head(resultChan).Error.kind # "nil") =>
        /\ Len(warnings') = Len(warnings) + 1
        /\ imageData' = imageData
        /\ fetched' = fetched

\* C28: there are no retries: GetFileContext is called at most once for each
\* reference of an invocation; a failed fetch is final for its reference and
\* shows only as one warning; the invocation still returns and its result is
\* packaged.
C28_NoRetries ==
    /\ []CalledOncePerRef
    /\ [][AssemblerFailureIsFinal /\ GoroutineFetchesOnce /\ CollectorFailureWarns]_vars
    /\ <>(pc = "done")

\* the assembler returned after a failed fetch between two included images:
\* three calls, one warning
C28_Witness ==
    /\ Packaged
    /\ mode = "budget"
    /\ outcome = <<"included", "skipped-error", "included">>
    /\ Len(warnings) = 1
    /\ \A u \in DOMAIN fetched : fetched[u] = Cardinality(PositionsOf(u))
    /\ Len(content) = 2

---------------------------------------------------------------------------
(* Cancellation of the caller's context: C27 *)

\* the caller cancels the context it passed to the downloader
Cancel ==
    /\ pc \in {"extracted", "loop", "fetching", "spawn", "collect"}
    /\ ctx = "active"
    /\ slackClient = SlackAPI
    /\ ctx' = "cancelled"
    /\ UNCHANGED <<pureVars, slackClient, poolVars, mode, pc, msg, refs, images, budget, next,
                   inflight, fetched, imageData, mimeTypeOverrides, skippedImages,
                   warnings, cumulativeSize, budgetExceeded, outcome, content>>

\* a GetFileContext call in progress sees that its context is done and gives
\* up with the context's error instead of its response
FetchCancelled(i) ==
    /\ i \in DOMAIN inflight
    /\ Done(inflight[i].ctx)
    /\ ~inflight[i].err
    /\ inflight' = [inflight EXCEPT ![i] = [ctx |-> @.ctx, err |-> TRUE, data |-> NoData]]
    /\ UNCHANGED <<pureVars, slackClient, ctx, poolVars, mode, pc, msg, refs, images, budget, next,
                   fetched, imageData, mimeTypeOverrides, skippedImages, warnings,
                   cumulativeSize, budgetExceeded, outcome, content>>

NextCancel ==
    \/ NextFetch
    \/ Cancel
    \/ \E i \in DOMAIN inflight : FetchCancelled(i)

SpecCancel == InitFetch /\ [][NextCancel]_vars

\* what is in the image map stays there
CommittedStay ==
    /\ DOMAIN imageData \subseteq DOMAIN imageData'
    /\ cumulativeSize' >= cumulativeSize

\* C27: when the caller's context is cancelled, the cancellation reaches
\* every fetch in progress, in budget mode and in pool mode, because the
\* context of each GetFileContext call is derived from the caller's context;
\* images that are already in the result stay in it and are packaged.
C27_CancellationReachesFetches ==
    /\ [](ctx = "cancelled" => \A i \in DOMAIN inflight : Done(inflight[i].ctx))
    /\ [][ctx' = "cancelled" => CommittedStay]_vars
    /\ [](Packaged =>
              \A k \in DOMAIN imageData :
                  \E n \in DOMAIN content : content[n].Data.base64 = imageData[k])

\* the caller cancelled while a fetch of the pool was in progress and
\* another image was in the result already; the cancellation has reached the
\* fetch, which has not given up yet
C27_Witness ==
    /\ mode = "pool"
    /\ ctx = "cancelled"
    /\ imageData # NoMap
    /\ \E j \in DOMAIN inflight :
           /\ ~inflight[j].err
           /\ Done(inflight[j].ctx)

---------------------------------------------------------------------------
(* GetImageHandler: C30.  A text is [format, args]: the format string and  *)
(* the values fmt.Sprintf puts into it, none for a plain string.  The      *)
(* result of the handler is [panic, result, err, accesses]: accesses are   *)
(* the calls made through ih.apiProvider, in order.                        *)

MaxInlineImageBudget == 768000

Sprintf(format, args) == [format |-> format, args |-> args]

\* mcp.NewToolResultError
NewToolResultError(text) ==
    [IsError |-> TRUE, Content |-> <<[Type |-> "text", Text |-> text]>>]

\* request.GetString(key, defaultValue) for string arguments
GetString(arguments, key, defaultValue) ==
    IF key \in DOMAIN arguments THEN arguments[key] ELSE defaultValue

\* return result, nil
reply(result, accesses) ==
    [panic |-> FALSE, result |-> result, err |-> "nil", accesses |-> accesses]

\* apiProvider: nil
NilProvider == [nil |-> TRUE]

\* a method call through a nil *provider.ApiProvider
nilDereference == [panic |-> TRUE, result |-> "none", err |-> "none", accesses |-> <<>>]

\* the text and image of the reply, from the compressed image
imageReply(file, compResult, accesses) ==
    reply([IsError |-> FALSE,
           Content |-> <<[Type |-> "text",
                          Text |-> Sprintf("File: %s\nSize: %d bytes\nType: %s",
                                           <<file.Name, Size(compResult.Data),
                                             compResult.MimeType>>)],
                         NewImageContent(EncodeToString(compResult.Data),
                                         compResult.MimeType)>>],
          accesses)

\* from the download on
downloadReply(file, downloaded, accesses) ==
    IF downloaded.err # "nil"
    THEN reply(NewToolResultError(Sprintf("Failed to download image: %v",
                                          <<downloaded.err>>)), accesses)
    ELSE imageReply(file,
                    CompressImageIfNeeded(downloaded.data, file.Mimetype,
                                          MaxInlineImageBudget),
                    accesses)

\* from the file's metadata on
fileReply_SizeFirst(file, downloadURL, resp, accesses) ==
    IF file.Size > MaxImageSize
    THEN reply(NewToolResultError(
                   Sprintf("File '%s' is too large (%d bytes). Maximum allowed size is %d bytes (5MB).",
                           <<file.Name, file.Size, MaxImageSize>>)), accesses)
    ELSE IF ~isImageMimeType(file.Mimetype)
    THEN reply(NewToolResultError(
                   Sprintf("File '%s' is not an image (type: %s). Only image files (PNG, JPEG, GIF, WebP) can be retrieved.",
                           <<file.Name, file.Mimetype>>)), accesses)
    ELSE IF downloadURL = <<>>
    THEN reply(NewToolResultError(
                   Sprintf("File '%s' does not have a download URL available",
                           <<file.Name>>)), accesses)
    ELSE IF ~isAllowedImageHost(downloadURL)
    THEN reply(NewToolResultError(
                   Sprintf("File URL is not from an allowed Slack domain", <<>>)),
               accesses)
    ELSE downloadReply(file, DownloadImage(resp),
                       Append(accesses, "Slack().GetFileContext"))
fileReply(file, downloadURL, resp, accesses) ==
    IF ~isImageMimeType(file.Mimetype)
    THEN reply(NewToolResultError(
                   Sprintf("File '%s' is not an image (type: %s). Only image files (PNG, JPEG, GIF, WebP) can be retrieved.",
                           <<file.Name, file.Mimetype>>)), accesses)
    ELSE IF downloadURL = <<>>
    THEN reply(NewToolResultError(
                   Sprintf("File '%s' does not have a download URL available",
                           <<file.Name>>)), accesses)
    ELSE IF ~isAllowedImageHost(downloadURL)
    THEN reply(NewToolResultError(
                   Sprintf("File URL is not from an allowed Slack domain", <<>>)),
               accesses)
    ELSE IF file.Size > MaxImageSize
    THEN reply(NewToolResultError(
                   Sprintf("File '%s' is too large (%d bytes). Maximum allowed size is %d bytes (5MB).",
                           <<file.Name, file.Size, MaxImageSize>>)), accesses)
    ELSE downloadReply(file, DownloadImage(resp),
                       Append(accesses, "Slack().GetFileContext"))

\* from the first use of the provider on
providerReply(fileID, apiProvider) ==
    IF apiProvider = NilProvider THEN nilDereference
    ELSE IF ~apiProvider.CanDownloadFiles
    THEN reply(NewToolResultError(
                   Sprintf("Image downloads not supported with browser tokens (xoxc/xoxd). Use OAuth tokens (xoxp/xoxb) instead.",
                           <<>>)),
               <<"CanDownloadFiles">>)
    ELSE IF apiProvider.GetFileInfo.err
    THEN reply(NewToolResultError(Sprintf("Failed to get file info: %v", <<"err">>)),
               <<"CanDownloadFiles", "Slack().GetFileInfoContext">>)
    ELSE fileReply(apiProvider.GetFileInfo.file,
                   fileDownloadURL(apiProvider.GetFileInfo.file),
                   apiProvider.GetFile,
                   <<"CanDownloadFiles", "Slack().GetFileInfoContext">>)

handlerReply_ProviderFirst(fileID, apiProvider) ==
    IF apiProvider = NilProvider THEN nilDereference
    ELSE IF ~apiProvider.CanDownloadFiles \/ fileID # <<>>
    THEN providerReply(fileID, apiProvider)
    ELSE reply(NewToolResultError(Sprintf("file_id parameter is required", <<>>)),
               <<"CanDownloadFiles">>)
handlerReply(fileID, apiProvider) ==
    IF fileID = <<>>
    THEN reply(NewToolResultError(Sprintf("file_id parameter is required", <<>>)), <<>>)
    ELSE providerReply(fileID, apiProvider)

GetImageHandler(request, apiProvider) ==
    handlerReply(GetString(request.Arguments, "file_id", <<>>), apiProvider)

\* requests without file_id, with an empty one, with another argument only,
\* and with the id of a file
Requests ==
    {[Arguments |-> args] :
        args \in {NoMap, [k \in {"file_id"} |-> <<>>], [k \in {"file_id"} |-> IdF1],
                  [k \in {"channel_id"} |-> IdF1]}}
\* what GetFileInfoContext answers
\* files that fail more than one of the handler's checks
FileDocNoURL == File(IdF5, NameDoc, MimePDF, MaxImageSize + 1, <<>>, <<>>)
FileNoURLBig == File(IdF7, NameA, MimePNG, MaxImageSize + 1, <<>>, <<>>)
FileEvilBig == File(IdF4, NameX, MimePNG, MaxImageSize + 1, UrlEvil, <<>>)
FileInfos ==
    {[err |-> TRUE, file |-> FileNoURL]}
    \cup {[err |-> FALSE, file |-> f] :
            f \in {FileA, FileB, FileBig, FileEvil, FileDoc, FileNoURL,
                   FileDocNoURL, FileNoURLBig, FileEvilBig}}
\* images longer than the inline budget and within the per-image ceiling: a
\* JPEG, and a PNG whose JPEG is over the budget at every quality
BlobLargeJPEG ==
    [head |-> <<255, 216, 255, 224>>, pad |-> MaxInlineImageBudget + 30000,
     tail |-> <<255, 217>>, pic |-> NoPic]
BlobLargePNG ==
    [head |-> PNGSignature, pad |-> 3 * MaxInlineImageBudget,
     tail |-> <<>>,
     pic |-> [dec |-> TRUE, enc |-> TRUE,
              jpeg |-> (80 :> MaxInlineImageBudget + 200000)
                       @@ (60 :> MaxInlineImageBudget + 100000)
                       @@ (40 :> MaxInlineImageBudget + 1)]]
\* what GetFileContext answers
HandlerResponses ==
    Responses \cup {[err |-> FALSE, data |-> d] : d \in {BlobLargeJPEG, BlobLargePNG}}
\* no provider, as in the tests, or a provider with its answers
Providers ==
    {NilProvider} \cup [CanDownloadFiles : BOOLEAN, GetFileInfo : FileInfos,
                          GetFile : HandlerResponses]

InitHandler ==
    /\ call \in {[fn |-> "GetImageHandler", request |-> r, apiProvider |-> p] :
                    r \in Requests, p \in Providers}
    /\ ret = FALSE
    /\ returned = FALSE
    /\ PipeIdle
    /\ PoolIdle

ReturnGetImageHandler ==
    /\ call.fn = "GetImageHandler"
    /\ ~returned
    /\ ret' = GetImageHandler(call.request, call.apiProvider)
    /\ returned' = TRUE
    /\ UNCHANGED <<call, pipeVars, poolVars>>

NextHandler == ReturnGetImageHandler

SpecHandler == InitHandler /\ [][NextHandler]_vars

Handled == call.fn = "GetImageHandler" /\ returned

\* the request has no file_id argument or an empty one
NoFileID ==
    \/ "file_id" \notin DOMAIN call.request.Arguments
    \/ call.request.Arguments["file_id"] = <<>>

\* C30: GetImageHandler, called with a request whose file_id is missing or
\* empty, returns an error result whose text is "file_id parameter is
\* required" together with a nil Go error, and it does so before any access
\* to the API provider: also when the provider is nil.
C30_FileIDRequired ==
    (Handled /\ NoFileID) =>
        /\ ~ret.panic
        /\ ret.err = "nil"
        /\ ret.result.IsError
        /\ Len(ret.result.Content) = 1
        /\ ret.result.Content[1].Type = "text"
        /\ ret.result.Content[1].Text = Sprintf("file_id parameter is required", <<>>)
        /\ ret.accesses = <<>>

\* a request without arguments to a handler without provider
C30_Witness ==
    /\ Handled
    /\ call.request.Arguments = NoMap
    /\ call.apiProvider = NilProvider
    /\ ret.result.IsError
    /\ ret.err = "nil"

\* the inputs of a handled call made with a provider
askedID == GetString(call.request.Arguments, "file_id", <<>>)
askedFile == call.apiProvider.GetFileInfo.file
askedURL ==
    IF askedFile.URLPrivate # <<>> THEN askedFile.URLPrivate
    ELSE askedFile.URLPrivateDownload

\* the checks of GetImageHandler in the order of the claim, each with the
\* format of the error text that reports its failure
HandlerChecks ==
    << [ok |-> askedID # <<>>, text |-> "file_id parameter is required"],
       [ok |-> call.apiProvider.CanDownloadFiles,
        text |-> "Image downloads not supported with browser tokens (xoxc/xoxd). Use OAuth tokens (xoxp/xoxb) instead."],
       [ok |-> ~call.apiProvider.GetFileInfo.err, text |-> "Failed to get file info: %v"],
       [ok |-> isImageMimeType(askedFile.Mimetype),
        text |-> "File '%s' is not an image (type: %s). Only image files (PNG, JPEG, GIF, WebP) can be retrieved."],
       [ok |-> askedURL # <<>>,
        text |-> "File '%s' does not have a download URL available"],
       [ok |-> isAllowedImageHost(askedURL),
        text |-> "File URL is not from an allowed Slack domain"],
       [ok |-> askedFile.Size <= MaxImageSize,
        text |-> "File '%s' is too large (%d bytes). Maximum allowed size is %d bytes (5MB)."] >>

FailedChecks == {i \in DOMAIN HandlerChecks : ~HandlerChecks[i].ok}
FirstFailed == CHOOSE i \in FailedChecks : \A j \in FailedChecks : i <= j

DownloadAttempted ==
    \E i \in DOMAIN ret.accesses : ret.accesses[i] = "Slack().GetFileContext"

HandledWithProvider == Handled /\ call.apiProvider # NilProvider

\* C35: GetImageHandler attempts a download only after every check has
\* passed, in the order file_id present, downloads supported, metadata
\* retrieved, MIME type supported, download URL non-empty, host allowed,
\* declared size at most MaxImageSize; when a check fails the result is the
\* error result of the first failed check with a nil Go error, and no
\* download is attempted.
C35_ChecksBeforeDownload ==
    HandledWithProvider =>
        /\ DownloadAttempted <=> FailedChecks = {}
        /\ FailedChecks # {} =>
               /\ ~ret.panic
               /\ ret.err = "nil"
               /\ ret.result.IsError
               /\ ret.result.Content[1].Text.format = HandlerChecks[FirstFailed].text
               /\ ~DownloadAttempted

\* a file on a foreign host that is also too large was refused for its host,
\* and a file that passes every check was downloaded
C35_Witness ==
    /\ HandledWithProvider
    /\ askedID # <<>>
    /\ call.apiProvider.CanDownloadFiles
    /\ ~call.apiProvider.GetFileInfo.err
    /\ \/ /\ askedFile = FileEvilBig
          /\ ret.result.Content[1].Text.format =
                 "File URL is not from an allowed Slack domain"
       \/ /\ askedFile = FileA
          /\ DownloadAttempted
          /\ ~ret.result.IsError

\* the handler returned an image
HandlerSucceeded == Handled /\ ~ret.panic /\ ~ret.result.IsError

\* C36: the image bytes in every successful result of GetImageHandler are at
\* most MaxInlineImageBudget, for PNG and for non-PNG files alike.
C36_ResultWithinInlineBudget ==
    HandlerSucceeded => Size(ret.result.Content[2].Data.base64) <= MaxInlineImageBudget

---------------------------------------------------------------------------
(* DownloadImagesWithBudget with the mock downloader of the tests: C31,    *)
(* C32, C33, C40 *)

\* a small PNG that decodes; its JPEG is longer than the PNG at every quality
BlobTinyPNG ==
    [head |-> PNGSignature, pad |-> 892, tail |-> <<>>,
     pic |-> [dec |-> TRUE, enc |-> TRUE,
              jpeg |-> (80 :> 1300) @@ (60 :> 1200) @@ (40 :> 1100)]]

\* the files map of the mock; a URL that is not in it gives an error
MockFiles ==
    {a @@ b @@ e : a \in {NoMap} \cup {(UrlA :> d) : d \in {BlobPNG, BlobTinyPNG}},
                   b \in {NoMap, (UrlB :> BlobJPEG)},
                   e \in {(UrlEvil :> d) : d \in {BlobPNG, BlobFakePNG, BlobTinyPNG}}}
\* a PNG file whose declared type carries a parameter
IdF9 == <<"F", "9">>
MimeParamPNG ==
    MimePNG \o <<";", " ", "c", "h", "a", "r", "s", "e", "t", "=", "u", "t", "f", "-", "8">>
FileParamType == File(IdF9, NameA, MimeParamPNG, 10, UrlA, <<>>)
AssembleFiles == {FileA, FileB, FileBig, FileEvil, FileUpperType, FileParamType}
AssembleBudgets == {-1, 0, 1000, 1500}

InitAssemble ==
    /\ PureIdle
    /\ PoolIdle
    /\ mode = "budget"
    /\ pc = "start"
    /\ ctx = "active"
    /\ slackClient \in {[mock |-> TRUE, files |-> f] : f \in MockFiles}
    /\ msg \in {[Timestamp |-> TS, Files |-> fs, Attachments |-> <<>>] :
                  fs \in SeqsUpTo(AssembleFiles, MaxRefs)}
    /\ budget \in AssembleBudgets
    /\ refs = <<>>
    /\ images = <<>>
    /\ next = 1
    /\ inflight = NoMap
    /\ fetched = NoMap
    /\ imageData = NoMap
    /\ mimeTypeOverrides = NoMap
    /\ skippedImages = <<>>
    /\ warnings = <<>>
    /\ cumulativeSize = 0
    /\ budgetExceeded = FALSE
    /\ outcome = <<>>
    /\ content = <<>>

NextAssemble ==
    \/ ExtractFromMessage
    \/ CallDownloadImagesWithBudget
    \/ BudgetSkipExceeded
    \/ BudgetSkipTooLarge
    \/ BudgetStartFetch
    \/ BudgetFetchFailed
    \/ BudgetOverBudget
    \/ BudgetInclude
    \/ BudgetReturn
    \/ Package

SpecAssemble == InitAssemble /\ [][NextAssemble]_vars

\* the lowest-quality JPEG the compressor accepted as a last resort is longer
\* than what is left of the budget
LastResortOverflows ==
    /\ pc = "fetching"
    /\ DownloadImage(inflight[next]).err = "nil"
    /\ LET c == CompressImageIfNeeded(DownloadImage(inflight[next]).data,
                                      images[next].MimeType, budget - cumulativeSize)
       IN c.WasConverted /\ Size(c.Data) > budget - cumulativeSize

\* C31: in every state of DownloadImagesWithBudget and for every budget, zero
\* and negative ones included, the running total is at least 0 and at most
\* the larger of the budget and 0; a lowest-quality JPEG that is still longer
\* than the remaining budget is not committed: the reference is skipped and
\* the exceeded flag is set.
C31_TotalWithinBudget ==
    /\ [](mode = "budget" =>
              /\ 0 <= cumulativeSize
              /\ cumulativeSize <= Max(budget, 0))
    /\ [][LastResortOverflows =>
              /\ imageData' = imageData
              /\ cumulativeSize' = cumulativeSize
              /\ budgetExceeded'
              /\ skippedImages' = Append(skippedImages, images[next])]_vars

\* with a budget of 1500 one image of 1200 bytes is in, and the next
\* reference's lowest-quality JPEG was too long for the rest: it is skipped
C31_Witness ==
    /\ mode = "budget"
    /\ budget = 1500
    /\ cumulativeSize = 1200
    /\ outcome = <<"included", "skipped-budget">>
    /\ mimeTypeOverrides # NoMap
    /\ budgetExceeded


\* C32: a MIME override is recorded for a reference only when the reference
\* is included and was transcoded: when DownloadImagesWithBudget returns,
\* every key of the override map is a key of the image map.
C32_OverridesOnlyForIncluded ==
    BudgetReturned => DOMAIN mimeTypeOverrides \subseteq DOMAIN imageData

\* a fetch of budget mode is in progress
Fetching == mode = "budget" /\ inflight # NoMap

\* C33: budget mode is strictly sequential: at most one fetch is in progress
\* at any time, and the fetch for the k-th reference starts only when the
\* decisions for the references before it are committed; no decision is
\* committed and neither the running total nor the exceeded flag changes
\* when a fetch starts.
C33_OneFetchAtATime ==
    /\ [](Fetching =>
              /\ DOMAIN inflight = {next}
              /\ Len(outcome) = next - 1
              /\ pc = "fetching")
    /\ [][(mode = "budget" /\ inflight' # inflight /\ inflight' # NoMap) =>
              /\ inflight = NoMap
              /\ DOMAIN inflight' = {next}
              /\ Len(outcome) = next - 1
              /\ UNCHANGED <<outcome, cumulativeSize, budgetExceeded, imageData>>]_vars
    /\ [][(mode = "budget" /\ outcome' # outcome) =>
              /\ Len(outcome') = next
              /\ next' = next + 1
              /\ inflight' = NoMap]_vars

\* the third fetch is in progress after the first image was included and the
\* second fetch failed
C33_Witness ==
    /\ Fetching
    /\ next = 3
    /\ outcome = <<"included", "skipped-error">>
    /\ cumulativeSize > 0
    /\ Len(warnings) = 1


\* the fetch in progress succeeded and its bytes fit the remaining budget
FetchedFits ==
    /\ mode = "budget"
    /\ pc = "fetching"
    /\ DownloadImage(inflight[next]).err = "nil"
    /\ ~budgetExceeded
    /\ Size(DownloadImage(inflight[next]).data) <= budget - cumulativeSize

\* C40: a successfully fetched reference whose fetched bytes already fit the
\* remaining budget while the exceeded flag is not set is always included:
\* the step that decides it stores it in the image map and leaves the
\* exceeded flag unset.
C40_FittingImageIncluded ==
    [][(FetchedFits /\ pc' = "loop") =>
           /\ outcome' = Append(outcome, "included")
           /\ imageKey(images[next]) \in DOMAIN imageData'
           /\ ~budgetExceeded']_vars


---------------------------------------------------------------------------
(* The outcome of DownloadImage: C34 *)

\* the buffer begins with the bytes sig
StartsWith(data, sig) ==
    /\ Size(data) >= Len(sig)
    /\ \A i \in 1..Len(sig) : ByteAt(data, i - 1) = sig[i]

\* the signatures of the four image formats
Recognized(data) ==
    \/ StartsWith(data, <<137, 80, 78, 71>>)
    \/ StartsWith(data, <<255, 216, 255>>)
    \/ StartsWith(data, <<71, 73, 70>>)
    \/ /\ StartsWith(data, <<82, 73, 70, 70>>)
       /\ Size(data) >= 12
       /\ \A i \in 1..4 : ByteAt(data, 7 + i) = <<87, 69, 66, 80>>[i]

DownloadImageReturned == call.fn = "DownloadImage" /\ returned

\* C34: every DownloadImage outcome is bytes XOR error: a non-nil error with
\* nil bytes, or a nil error with bytes of length 8 to MaxImageSize that
\* start with a recognized image signature; and the checks run in the order
\* fetch error, size ceiling, format.
C34_BytesXorError ==
    DownloadImageReturned =>
        /\ \/ ret.err # "nil" /\ ret.data = NoData
           \/ /\ ret.err = "nil"
              /\ ret.data = call.resp.data
              /\ Size(ret.data) >= 8
              /\ Size(ret.data) <= MaxImageSize
              /\ Recognized(ret.data)
        /\ call.resp.err => ret.err = "download"
        /\ (~call.resp.err /\ Size(call.resp.data) > MaxImageSize) => ret.err = "size"
        /\ ret.err \in {"format", "auth"} =>
               /\ ~call.resp.err
               /\ Size(call.resp.data) <= MaxImageSize

\* a body one byte over the ceiling that is no image was refused for its
\* size, and the same body one byte shorter for its format
C34_Witness ==
    /\ DownloadImageReturned
    /\ call.resp.data.head = <<1, 2, 3>>
    /\ \/ Size(call.resp.data) = MaxImageSize + 1 /\ ret.err = "size"
       \/ Size(call.resp.data) = MaxImageSize /\ ret.err = "format"


---------------------------------------------------------------------------
(* The results of the pool, for short lists and for lists that are         *)
(* truncated: C38 *)

InitResults == InitPool \/ InitTruncatePool

SpecResults == InitResults /\ [][NextPool]_vars

\* the goroutines that have sent their result
Sent == {w \in DOMAIN worker : worker[w] \in {"release", "wgdone", "done"}}

\* the keys of the results waiting in the channel
ChannelKeys == {resultChan[i].FileID : i \in DOMAIN resultChan}

PoolReturned == mode = "pool" /\ pc \in {"returned", "done"}

\* C38: in DownloadImagesWithConcurrencyLimit no result is lost or
\* duplicated: each of the first min(N, 10) references contributes exactly
\* one result to the channel, the channel is closed only after all of them
\* have been sent, and for pairwise distinct keys the number of map entries
\* plus the number of warnings equals min(N, 10) at return.
C38_OneResultPerReference ==
    /\ [](mode = "pool" =>
              /\ Len(resultChan) + Cardinality(DOMAIN imageData) + Len(warnings)
                     = Cardinality(Sent)
              /\ Cardinality(ChannelKeys) = Len(resultChan)
              /\ ChannelKeys \cup DOMAIN imageData
                     \subseteq {imageKey(images[w]) : w \in Sent}
              /\ ChannelKeys \cap DOMAIN imageData = {}
              /\ chanClosed =>
                     /\ DOMAIN worker = 1..Min(Len(refs), MaxImagesPerCall)
                     /\ \A w \in DOMAIN worker : worker[w] = "done")
    /\ [](PoolReturned =>
              /\ resultChan = <<>>
              /\ Cardinality(DOMAIN imageData) + Len(warnings)
                     = Min(Len(refs), MaxImagesPerCall))
    /\ [][(mode = "pool" /\ Len(resultChan') > Len(resultChan)) =>
              /\ ~chanClosed'
              /\ Len(resultChan') = Len(resultChan) + 1
              /\ Cardinality(Sent') = Cardinality(Sent) + 1]_vars

\* twelve references were given: ten results came back, images and warnings
C38_Witness ==
    /\ PoolReturned
    /\ Len(refs) = MaxImagesPerCall + 2
    /\ chanClosed
    /\ imageData # NoMap
    /\ Cardinality(DOMAIN imageData) + Len(warnings) = MaxImagesPerCall


---------------------------------------------------------------------------
(* The pool with a fixed answer for every URL: C37 *)

\* downloaders that answer each URL of the pool files with fixed bytes, or
\* with an error when they have no entry for it
ScheduleFiles ==
    UNION {[S -> {BlobFakePNG, BlobJunk}] :
              S \in SUBSET {UrlP(i) : i \in 1..MaxConcurrentDownloads}}

\* as many pool files as there are download slots, or fewer
ScheduleMessages == {m \in PoolMessages : Len(m.Files) <= MaxConcurrentDownloads}

InitSchedule ==
    /\ PureIdle
    /\ PoolIdle
    /\ mode = "pool"
    /\ pc = "start"
    /\ ctx = "active"
    /\ slackClient \in {[mock |-> TRUE, files |-> f] : f \in ScheduleFiles}
    /\ msg \in ScheduleMessages
    /\ budget = 0
    /\ refs = <<>>
    /\ images = <<>>
    /\ next = 1
    /\ inflight = NoMap
    /\ fetched = NoMap
    /\ imageData = NoMap
    /\ mimeTypeOverrides = NoMap
    /\ skippedImages = <<>>
    /\ warnings = <<>>
    /\ cumulativeSize = 0
    /\ budgetExceeded = FALSE
    /\ outcome = <<>>
    /\ content = <<>>

SpecSchedule == InitSchedule /\ [][NextPool]_vars

\* what the downloader answers for the i-th reference
FixedOutcome(i) ==
    DownloadImage(mockGetFileContext(slackClient.files, images[i].URL))

\* the references that end in the image map, and those that end in a warning
Delivered ==
    {i \in 1..Len(images) :
        images[i].Size <= MaxImageSize /\ FixedOutcome(i).err = "nil"}
Refused == (1..Len(images)) \ Delivered

WarningFor(i) ==
    IF images[i].Size > MaxImageSize THEN declaredSizeWarning(images[i])
    ELSE errorWarning(FixedOutcome(i).err)

\* how often the warning x is in the sequence s
Count(s, x) == Cardinality({i \in DOMAIN s : s[i] = x})

\* C37: for a fixed fetch outcome per URL and references with pairwise
\* distinct keys, the image map returned by
\* DownloadImagesWithConcurrencyLimit and the multiset of its warnings are
\* determined by the references and the outcomes alone, whatever the
\* interleaving of the workers.
C37_ResultIndependentOfSchedule ==
    PoolReturned =>
        /\ DOMAIN imageData = {imageKey(images[i]) : i \in Delivered}
        /\ \A i \in Delivered : imageData[imageKey(images[i])] = FixedOutcome(i).data
        /\ Len(warnings) = Cardinality(Refused)
        /\ \A i \in Refused :
               Count(warnings, WarningFor(i))
                   = Cardinality({j \in Refused : WarningFor(j) = WarningFor(i)})

\* the pool returned an image and two warnings, and the warning of the
\* second reference came before the warning of the first
C37_Witness ==
    /\ PoolReturned
    /\ slackClient.mock
    /\ Cardinality(DOMAIN imageData) = 1
    /\ Len(warnings) = 2
    /\ warnings[1] = WarningFor(2)
    /\ warnings[2] = WarningFor(1)
    /\ WarningFor(1) # WarningFor(2)


\* the fetch in progress returned a PNG that decodes, for a reference that
\* the locator accepted as image/png
LocatedPNGFetched ==
    /\ mode = "budget"
    /\ pc = "fetching"
    /\ isImageMimeType(images[next].MimeType)
    /\ normalizeMimeType(TrimSpace(images[next].MimeType)) = MimePNG
    /\ DownloadImage(inflight[next]).err = "nil"
    /\ DownloadImage(inflight[next]).data.pic.dec
    /\ DownloadImage(inflight[next]).data.pic.enc

\* C39: the compressor and the reference locator agree on what a PNG is:
\* every reference that ExtractImagesFromMessage accepts because its declared
\* MIME type normalizes to image/png is transcoded to JPEG by
\* CompressImageIfNeeded when its bytes decode as PNG.
C39_LocatedPNGIsTranscoded ==
    [][(LocatedPNGFetched /\ pc' = "loop") =>
           /\ CompressImageIfNeeded(DownloadImage(inflight[next]).data,
                                    images[next].MimeType,
                                    budget - cumulativeSize).WasConverted
           /\ imageKey(images[next]) \in DOMAIN mimeTypeOverrides'
           /\ mimeTypeOverrides'[imageKey(images[next])] = MimeJPEG]_vars

=============================================================================
